---- MODULE Spec2Model ----
(***************************************************************************)
(* Data Exploration Lab: the undo/redo history of the data-analysis panel  *)
(* (IDataAnalysis.py) and the command interpreter of the terminal panel    *)
(* (ITerminal.py).                                                         *)
(*                                                                         *)
(* Python strings that the code inspects (startswith, split, lower,        *)
(* slicing, comparison with a literal) are sequences of one-character      *)
(* strings.  DataFrames are objects on a heap: a reference is an index     *)
(* into the heap, copy() allocates, assignment shares.                     *)
(***************************************************************************)
EXTENDS Integers, Sequences, FiniteSets, TLC

(***************************************************************************)
(* Bounds of the model.                                                    *)
(***************************************************************************)
MaxHist == 3          \* pushes are accepted while len(history) <= MaxHist
MaxTermCmds == 3      \* commands submitted to the terminal
MaxDispatchCmds == 2  \* commands submitted when every verb can be typed
MaxShellCmds == 2     \* commands submitted beside a shell that writes output
MaxShellOut == 2      \* chunks of output the shell writes
MaxStored == 3        \* queries add_to_history keeps; the code keeps 100

(***************************************************************************)
(* Strings                                                                 *)
(***************************************************************************)
Range(s) == { s[i] : i \in 1..Len(s) }

Upper == <<"A","B","C","D","E","F","G","H","I","J","K","L","M",
           "N","O","P","Q","R","S","T","U","V","W","X","Y","Z">>
LowerOf == <<"a","b","c","d","e","f","g","h","i","j","k","l","m",
             "n","o","p","q","r","s","t","u","v","w","x","y","z">>

\* str.lower(), one character
LowerChar(c) ==
    IF c \in Range(Upper)
    THEN LowerOf[CHOOSE i \in 1..Len(Upper) : Upper[i] = c]
    ELSE c

\* str.upper(), one character
UpperOf == [c \in Range(LowerOf) |-> Upper[CHOOSE i \in 1..Len(LowerOf) : LowerOf[i] = c]]

UpperChar(c) == IF c \in DOMAIN UpperOf THEN UpperOf[c] ELSE c

\* str.upper()
UpperCase(s) == [i \in 1..Len(s) |-> UpperChar(s[i])]

\* str.lower()
Lower(s) == [i \in 1..Len(s) |-> LowerChar(s[i])]

\* s[n:]
Drop(s, n) == IF n >= Len(s) THEN <<>> ELSE SubSeq(s, n + 1, Len(s))

\* s.startswith(p)
StartsWith(s, p) == Len(p) <= Len(s) /\ SubSeq(s, 1, Len(p)) = p

RECURSIVE LStrip(_)
LStrip(s) == IF s # <<>> /\ s[1] = " " THEN LStrip(Tail(s)) ELSE s

RECURSIVE RStrip(_)
RStrip(s) ==
    IF s # <<>> /\ s[Len(s)] = " " THEN RStrip(SubSeq(s, 1, Len(s) - 1)) ELSE s

\* str.strip()
Strip(s) == RStrip(LStrip(s))

\* the first whitespace-delimited word of s, and what follows it
RECURSIVE FirstWord(_)
FirstWord(s) ==
    IF s = <<>> \/ s[1] = " " THEN <<>> ELSE <<s[1]>> \o FirstWord(Tail(s))

\* str.split(): the words of s
RECURSIVE Split(_)
Split(s) ==
    LET t == LStrip(s)
    IN  IF t = <<>> THEN <<>>
        ELSE <<FirstWord(t)>> \o Split(Drop(t, Len(FirstWord(t))))

(***************************************************************************)
(* Numbers: pandas computes means and z-scores in floating point; the      *)
(* model computes them exactly, as fractions n/d in lowest terms.          *)
(***************************************************************************)
Abs(x) == IF x < 0 THEN -x ELSE x

RECURSIVE GCD(_, _)
GCD(x, y) == IF y = 0 THEN x ELSE GCD(y, x % y)

Q(n, d) ==
    LET g == GCD(Abs(n), Abs(d))
        s == IF d < 0 THEN -1 ELSE 1
    IN  [n |-> (s * n) \div g, d |-> (s * d) \div g]

QAdd(x, y) == Q(x.n * y.d + y.n * x.d, x.d * y.d)
QSub(x, y) == Q(x.n * y.d - y.n * x.d, x.d * y.d)
QMul(x, y) == Q(x.n * y.n, x.d * y.d)
QDivInt(x, k) == Q(x.n, x.d * k)
QLt(x, y) == x.n * y.d < y.n * x.d

(***************************************************************************)
(* Cells and datasets.  A cell is a number, a text (named by its index in  *)
(* the texts of the input files) or NaN.  A dataset value has typed,       *)
(* labelled columns and a sequence of rows.                                *)
(***************************************************************************)
Num(v) == [k |-> "num", n |-> v, d |-> 1]
Txt(i) == [k |-> "txt", n |-> i, d |-> 1]
NaN == [k |-> "nan", n |-> 0, d |-> 1]
QCell(q) == [k |-> "num", n |-> q.n, d |-> q.d]
QOf(c) == [n |-> c.n, d |-> c.d]

IsNaN(c) == c.k = "nan"

\* a column label: its text, whether the label is a str, whether the dtype is numeric
Col(name, isstr, numeric) == [name |-> name, isstr |-> isstr, numeric |-> numeric]

Frame(cols, rows) == [cols |-> cols, rows |-> rows]

\* pd.DataFrame()
EmptyFrame == Frame(<<>>, <<>>)

\* DataFrame.empty: some axis has length 0
IsEmpty(df) == Len(df.cols) = 0 \/ Len(df.rows) = 0

\* df[mask] with the mask read one position late: row i is kept when
\* entry i + 1 is TRUE
SelectRows_shifted(df, mask) ==
    LET F[i \in 0..Len(df.rows)] ==
            IF i = 0 THEN <<>>
            ELSE IF i < Len(df.rows) /\ mask[i + 1] THEN Append(F[i - 1], df.rows[i])
                 ELSE F[i - 1]
    IN  Frame(df.cols, F[Len(df.rows)])

\* df[mask]: the rows whose entry in the boolean mask is TRUE, in order
SelectRows(df, mask) ==
    LET F[i \in 0..Len(df.rows)] ==
            IF i = 0 THEN <<>>
            ELSE IF mask[i] THEN Append(F[i - 1], df.rows[i]) ELSE F[i - 1]
    IN  Frame(df.cols, F[Len(df.rows)])

RowHasNaN(row) == \E j \in 1..Len(row) : IsNaN(row[j])

\* DataFrame.dropna(): the rows without a missing value
DropNa(df) == SelectRows(df, [i \in 1..Len(df.rows) |-> ~RowHasNaN(df.rows[i])])

\* DataFrame.drop_duplicates(): the first occurrence of every row
DropDuplicates(df) ==
    SelectRows(df, [i \in 1..Len(df.rows) |->
                        \A j \in 1..(i - 1) : df.rows[j] # df.rows[i]])

\* the non-missing cells of column j, in row order
ColValues(df, j) ==
    LET F[i \in 0..Len(df.rows)] ==
            IF i = 0 THEN <<>>
            ELSE IF IsNaN(df.rows[i][j]) THEN F[i - 1]
                 ELSE Append(F[i - 1], QOf(df.rows[i][j]))
    IN  F[Len(df.rows)]

RECURSIVE QSum(_)
QSum(vs) == IF vs = <<>> THEN Q(0, 1) ELSE QAdd(vs[1], QSum(Tail(vs)))

\* a numeric column's mean, NaN skipped; NaN when there is no value
ColMean(df, j) ==
    LET vs == ColValues(df, j)
    IN  IF vs = <<>> THEN NaN ELSE QCell(QDivInt(QSum(vs), Len(vs)))

RECURSIVE QInsert(_, _)
QInsert(x, sorted) ==
    IF sorted = <<>> THEN <<x>>
    ELSE IF QLt(sorted[1], x) THEN <<sorted[1]>> \o QInsert(x, Tail(sorted))
         ELSE <<x>> \o sorted

RECURSIVE QSort(_)
QSort(vs) == IF vs = <<>> THEN <<>> ELSE QInsert(vs[1], QSort(Tail(vs)))

\* a numeric column's median, NaN skipped; NaN when there is no value
ColMedian(df, j) ==
    LET vs == QSort(ColValues(df, j))
        n == Len(vs)
    IN  IF n = 0 THEN NaN
        ELSE IF n % 2 = 1 THEN QCell(vs[(n + 1) \div 2])
             ELSE QCell(QDivInt(QAdd(vs[n \div 2], vs[n \div 2 + 1]), 2))

\* pandas >= 2: DataFrame.mean() and DataFrame.median() raise TypeError on a
\* column of texts (numeric_only defaults to False)
ReduceRaises(df) ==
    \E j \in 1..Len(df.cols) :
        /\ ~df.cols[j].numeric
        /\ \E i \in 1..Len(df.rows) : df.rows[i][j].k = "txt"

\* DataFrame.fillna(stat): a missing cell takes its column's statistic
FillNa(df, stat) ==
    Frame(df.cols,
          [i \in 1..Len(df.rows) |->
              [j \in 1..Len(df.cols) |->
                  IF IsNaN(df.rows[i][j]) THEN stat[j] ELSE df.rows[i][j]]])

Means(df) ==
    [j \in 1..Len(df.cols) |-> IF df.cols[j].numeric THEN ColMean(df, j) ELSE NaN]
Medians(df) ==
    [j \in 1..Len(df.cols) |-> IF df.cols[j].numeric THEN ColMedian(df, j) ELSE NaN]

(***************************************************************************)
(* Outliers: scipy.stats.zscore over the numeric columns (population       *)
(* standard deviation), then rows with every |z| < 3.                      *)
(***************************************************************************)
ZThreshold == 3

\* the variance of the values vs (all present, vs non-empty)
QVar(vs) ==
    LET mu == QDivInt(QSum(vs), Len(vs))
        sq == [i \in 1..Len(vs) |-> QMul(QSub(vs[i], mu), QSub(vs[i], mu))]
    IN  QDivInt(QSum(sq), Len(vs))

\* |zscore| < 3 for row i of column j.  A NaN in the column, or a column of
\* equal values (0/0), makes every z of the column NaN, and NaN < 3 is False.
ZBelow(df, j, i) ==
    LET vs == ColValues(df, j)
    IN  IF Len(vs) # Len(df.rows) \/ vs = <<>> THEN FALSE
        ELSE LET mu == QDivInt(QSum(vs), Len(vs))
                 var == QVar(vs)
                 dev == QSub(QOf(df.rows[i][j]), mu)
             IN  /\ var.n # 0
                 /\ QLt(QMul(dev, dev),
                        QMul(Q(ZThreshold * ZThreshold, 1), var))

\* df[(z < 3).all(axis=1)] with z over select_dtypes(include=np.number)
ZScoreFilter(df) ==
    SelectRows(df, [i \in 1..Len(df.rows) |->
                        \A j \in 1..Len(df.cols) :
                            df.cols[j].numeric => ZBelow(df, j, i)])

(***************************************************************************)
(* DataFrame.query(expr).  The model evaluates the expressions of the form *)
(* <column> <comparison> <operand>, the column named bare or between        *)
(* backquotes, the operand an integer literal or <column>.mean(); the       *)
(* inputs of the model are of that form or are expressions                  *)
(* pandas rejects: an empty expression, a dangling operator, a name that   *)
(* is no column, an ordering comparison of a text with a number.           *)
(***************************************************************************)
CmpOps == { <<"=","=">>, <<"!","=">>, <<">">>, <<"<">>, <<">","=">>, <<"<","=">> }

Digits == <<"0","1","2","3","4","5","6","7","8","9">>

IsLiteral(tok) == tok # <<>> /\ \A i \in 1..Len(tok) : tok[i] \in Range(Digits)

RECURSIVE LiteralValue(_)
LiteralValue(tok) ==
    IF tok = <<>> THEN 0
    ELSE 10 * LiteralValue(SubSeq(tok, 1, Len(tok) - 1))
         + (CHOOSE d \in 0..9 : Digits[d + 1] = tok[Len(tok)])

\* the backquote character (a TLA+ string cannot hold it)
BackQuote == "BACKQUOTE"

\* the name a token refers to: a name between backquotes, or a bare name
NameOf(tok) ==
    IF Len(tok) >= 2 /\ tok[1] = BackQuote /\ tok[Len(tok)] = BackQuote
    THEN SubSeq(tok, 2, Len(tok) - 1)
    ELSE tok

\* the columns of df that the name resolves to (labels are one character)
ColumnsNamed(df, name) ==
    { j \in 1..Len(df.cols) :
        df.cols[j].isstr /\ Len(name) = 1 /\ df.cols[j].name = name[1] }

\* cell <op> k, elementwise; NaN compares unequal to everything
CellCmp(c, op, k) ==
    IF c.k = "num"
    THEN CASE op = <<"=","=">> -> c.n = k * c.d
           [] op = <<"!","=">> -> c.n # k * c.d
           [] op = <<">">>     -> c.n > k * c.d
           [] op = <<"<">>     -> c.n < k * c.d
           [] op = <<">","=">> -> c.n >= k * c.d
           [] op = <<"<","=">> -> c.n <= k * c.d
    ELSE op = <<"!","=">>

\* an ordering comparison of a text cell with a number raises TypeError
CmpRaises(df, j, op) ==
    /\ op \notin { <<"=","=">>, <<"!","=">> }
    /\ \E i \in 1..Len(df.rows) : df.rows[i][j].k = "txt"

EndsWith(s, suffix) ==
    Len(suffix) <= Len(s) /\ SubSeq(s, Len(s) - Len(suffix) + 1, Len(s)) = suffix

\* a right operand of the form <column>.mean(): the mean of the column over
\* the frame the query runs on
MeanSuffix == <<".","m","e","a","n","(",")">>

MeanColumns(df, tok) ==
    IF EndsWith(tok, MeanSuffix)
    THEN ColumnsNamed(df, SubSeq(tok, 1, Len(tok) - Len(MeanSuffix)))
    ELSE {}

\* cell <op> v for a number cell v; NaN on either side compares unequal
CellCmpCell(c, op, v) ==
    IF c.k = "num" /\ v.k = "num"
    THEN CASE op = <<"=","=">> -> c.n * v.d = v.n * c.d
           [] op = <<"!","=">> -> c.n * v.d # v.n * c.d
           [] op = <<">">>     -> c.n * v.d > v.n * c.d
           [] op = <<"<">>     -> c.n * v.d < v.n * c.d
           [] op = <<">","=">> -> c.n * v.d >= v.n * c.d
           [] op = <<"<","=">> -> c.n * v.d <= v.n * c.d
    ELSE op = <<"!","=">>

\* Series.mean() of a column of texts raises TypeError
MeanRaises(df, tok) ==
    \E j \in MeanColumns(df, tok) :
        \E i \in 1..Len(df.rows) : df.rows[i][j].k = "txt"

\* the expression is no comparison of two operands: SyntaxError or ValueError
Malformed(expr) ==
    LET toks == Split(expr)
    IN  Len(toks) # 3 \/ (Len(toks) = 3 /\ toks[2] \notin CmpOps)

\* an operand names neither a column nor a number: UndefinedVariableError
UnknownReference(df, expr) ==
    LET toks == Split(expr)
    IN  /\ Len(toks) = 3
        /\ \/ ColumnsNamed(df, NameOf(toks[1])) = {}
           \/ ~IsLiteral(toks[3]) /\ MeanColumns(df, toks[3]) = {}

QueryRaises(df, expr) ==
    \/ Malformed(expr)
    \/ UnknownReference(df, expr)
    \/ LET toks == Split(expr)
       IN  \/ CmpRaises(df, CHOOSE j \in ColumnsNamed(df, NameOf(toks[1])) : TRUE,
                        toks[2])
           \/ MeanRaises(df, toks[3])

\* query that answers with the compared column alone
Query_projected(df, expr) ==
    LET toks == Split(expr)
        j == CHOOSE c \in ColumnsNamed(df, NameOf(toks[1])) : TRUE
        one == Frame(<<df.cols[j]>>, [i \in 1..Len(df.rows) |-> <<df.rows[i][j]>>])
    IN  IF IsLiteral(toks[3])
        THEN SelectRows(one, [i \in 1..Len(df.rows) |->
                                CellCmp(df.rows[i][j], toks[2], LiteralValue(toks[3]))])
        ELSE LET m == ColMean(df, CHOOSE c \in MeanColumns(df, toks[3]) : TRUE)
             IN  SelectRows(one, [i \in 1..Len(df.rows) |->
                                      CellCmpCell(df.rows[i][j], toks[2], m)])

\* the value of df.query(expr) when it does not raise: a new frame
Query(df, expr) ==
    LET toks == Split(expr)
        j == CHOOSE c \in ColumnsNamed(df, NameOf(toks[1])) : TRUE
    IN  IF IsLiteral(toks[3])
        THEN SelectRows(df, [i \in 1..Len(df.rows) |->
                                CellCmp(df.rows[i][j], toks[2], LiteralValue(toks[3]))])
        ELSE LET m == ColMean(df, CHOOSE c \in MeanColumns(df, toks[3]) : TRUE)
             IN  SelectRows(df, [i \in 1..Len(df.rows) |->
                                     CellCmpCell(df.rows[i][j], toks[2], m)])

(***************************************************************************)
(* The files the user can pick or name.                                    *)
(***************************************************************************)
ColA == Col("a", TRUE, TRUE)
ColB == Col("b", TRUE, FALSE)
ColC == Col("c", TRUE, TRUE)

\* s.csv: a duplicated row and a row with a missing text
SmallFrame ==
    Frame(<<ColA, ColB>>,
          << <<Num(1), Txt(1)>>, <<Num(3), NaN>>, <<Num(1), Txt(1)>> >>)

\* o.csv: ten rows at 1 and one row at 12, whose z-score is sqrt(10) > 3
OutlierFrame ==
    Frame(<<ColA, ColB>>,
          [i \in 1..11 |-> IF i = 11 THEN <<Num(12), Txt(2)>> ELSE <<Num(1), Txt(1)>>])

\* n.csv: numbers only, with missing values
NumbersFrame ==
    Frame(<<ColA, ColC>>, << <<Num(1), Num(2)>>, <<NaN, Num(2)>>, <<Num(4), NaN>> >>)

\* y.xlsx: a sheet whose header cells are the integers 2020 and 2021
YearsFrame ==
    Frame(<<Col("2020", FALSE, TRUE), Col("2021", FALSE, TRUE)>>,
          << <<Num(1), Num(2)>> >>)

\* e.csv: a header line and no rows
HeaderOnlyFrame == Frame(<<ColA, ColB>>, <<>>)

PathSmall    == <<"s",".","c","s","v">>
PathOutlier  == <<"o",".","c","s","v">>
PathNumbers  == <<"n",".","c","s","v">>
PathYears    == <<"y",".","x","l","s","x">>
PathEmpty    == <<"e",".","c","s","v">>
PathBad      == <<"b",".","c","s","v">>     \* exists, not parseable
PathMissing  == <<"m",".","c","s","v">>     \* does not exist

\* the file system: path -> (format, content)
Files ==
    { [path |-> PathSmall,   fmt |-> "csv",  df |-> SmallFrame],
      [path |-> PathOutlier, fmt |-> "csv",  df |-> OutlierFrame],
      [path |-> PathNumbers, fmt |-> "csv",  df |-> NumbersFrame],
      [path |-> PathYears,   fmt |-> "xlsx", df |-> YearsFrame],
      [path |-> PathEmpty,   fmt |-> "csv",  df |-> HeaderOnlyFrame] }

FileAt(path, fmt) == { f \in Files : f.path = path /\ f.fmt = fmt }

\* pd.read_csv(path) raises on a missing or unparseable file
ReadCsvRaises(path) == FileAt(path, "csv") = {}
ReadCsv(path) == (CHOOSE f \in FileAt(path, "csv") : TRUE).df

\* pd.read_excel(path)
ReadExcelRaises(path) == FileAt(path, "xlsx") = {}
ReadExcel(path) == (CHOOSE f \in FileAt(path, "xlsx") : TRUE).df

(***************************************************************************)
(* State.                                                                  *)
(***************************************************************************)
VARIABLES
    page,            \* the sub-interface the user works in
    \* DataAnalysisApp
    heap,            \* the DataFrame objects the panel holds, by reference
    current_df,      \* self.current_df, a reference
    history,         \* self.history, a list of references
    current_step,    \* self.current_step
    undo_btn,        \* self.undo_btn.isEnabled()
    redo_btn,        \* self.redo_btn.isEnabled()
    clean_btn,       \* self.clean_btn.isEnabled(), as filter_btn
    dialog,          \* title of the message box the last handler showed
    alive,           \* FALSE once an exception left a slot uncaught
    saved,           \* the last handler called save_state
    dropped,         \* redoable snapshots the last save_state discarded
    last_action,     \* the handler that ran last
    operations,      \* what get_operations returned to the last apply_cleaning
    filter_expr,     \* the expression given to the last apply_filter
    undo_run,        \* pushes, then undos, then redos: the run in progress
    \* TerminalInterface
    term_heap,       \* the DataFrame objects the terminal holds, by reference
    term_current_df, \* self.current_df, a reference; 0 is None
    data_env,        \* self.data_env, the names it binds to DataFrames
    term_history,    \* self.history, the submitted commands
    history_index,   \* self.history_index
    plot_count,      \* self.plot_count
    shell_input,     \* the lines given to self.process.write
    scrollback,      \* the lines of self.terminal
    input,           \* the text of self.input
    process,         \* self.process.state()
    pending,         \* what the shell wrote and readAll() has not fetched yet
    term_event,      \* what happened last in the terminal
    \* SQLInterface
    query_history,         \* self.query_history
    history_list,          \* the items of self.history_list
    current_history_index, \* self.current_history_index
    editor,                \* self.editor.toPlainText()
    tables,                \* the tables of self.conn besides the sample ones
    info_bar,              \* titles of the info bars the last handler showed
    evicted,               \* queries the last handler's add_to_history dropped
    sql_event              \* the handler of the SQL panel that ran last

panel_vars == <<heap, current_df, history, current_step, undo_btn, redo_btn,
                clean_btn, dialog, alive, saved, dropped, last_action,
                operations, filter_expr, undo_run>>

term_vars == <<term_heap, term_current_df, data_env, term_history, history_index,
               plot_count, shell_input, scrollback, input, process, pending,
               term_event>>

sql_vars == <<query_history, history_list, current_history_index, editor,
              tables, info_bar, evicted, sql_event>>

vars == <<page, panel_vars, term_vars, sql_vars>>

\* the panel's fields as one record
Panel ==
    [heap |-> heap, current_df |-> current_df, history |-> history,
     current_step |-> current_step, undo_btn |-> undo_btn, redo_btn |-> redo_btn,
     clean_btn |-> clean_btn, dialog |-> dialog, alive |-> alive,
     saved |-> saved, dropped |-> dropped]

\* a handler starts: no message box shown yet, save_state not called yet
Enter(p) == [p EXCEPT !.dialog = "none", !.saved = FALSE, !.dropped = 0]

\* the references the panel holds, log first
Refs(p) == p.history \o <<p.current_df>>

\* the positions of Refs(p) that hold a reference for the first time
Firsts(refs) == { i \in 1..Len(refs) : \A j \in 1..(i - 1) : refs[j] # refs[i] }

\* unreferenced objects are collected; the objects left are numbered in the
\* order in which Refs(p) reaches them
Collect(p) ==
    LET refs == Refs(p)
        firsts == Firsts(refs)
        Kth(k) == CHOOSE i \in firsts : Cardinality({ j \in firsts : j <= i }) = k
        NewRef(r) ==
            Cardinality({ i \in firsts :
                            i <= (CHOOSE x \in firsts : refs[x] = r) })
    IN  [p EXCEPT
            !.heap = [k \in 1..Cardinality(firsts) |-> p.heap[refs[Kth(k)]]],
            !.history = [i \in 1..Len(p.history) |-> NewRef(p.history[i])],
            !.current_df = NewRef(p.current_df)]

\* a new object holding val; the panel's current_df refers to it
SetCurrentNew(p, val) ==
    [p EXCEPT !.heap = Append(@, val), !.current_df = Len(p.heap) + 1]

Deref(p, ref) == p.heap[ref]
CurrentValue(p) == Deref(p, p.current_df)

(***************************************************************************)
(* DataAnalysisApp                                                         *)
(***************************************************************************)
\* populate_table raises when a column label is no str
\* (QTableWidget.setHorizontalHeaderLabels takes strings); an empty frame
\* returns before the labels are set
populate_table_raises(p) ==
    LET df == CurrentValue(p)
    IN  ~IsEmpty(df) /\ \E j \in 1..Len(df.cols) : ~df.cols[j].isstr

\* update_controls raises on the same labels (QComboBox.addItems)
update_controls_raises(p) ==
    LET df == CurrentValue(p)
    IN  ~IsEmpty(df) /\ \E j \in 1..Len(df.cols) : ~df.cols[j].isstr

update_controls(p) == [p EXCEPT !.clean_btn = ~IsEmpty(CurrentValue(p))]

update_undo_redo(p) ==
    [p EXCEPT !.undo_btn = p.current_step > 0,
              !.redo_btn = p.current_step < Len(p.history) - 1]

\* save_state without the copy: the log shares the working object
save_state_shared(p) ==
    LET kept == SubSeq(p.history, 1, p.current_step + 1)
    IN  update_undo_redo(
            [p EXCEPT !.history = Append(kept, p.current_df),
                      !.current_step = p.current_step + 1,
                      !.saved = TRUE,
                      !.dropped = Len(p.history) - Len(kept)])

\* save_state without the truncation to history[:current_step+1]
save_state_untruncated(p) ==
    update_undo_redo(
        [p EXCEPT !.heap = Append(@, CurrentValue(p)),
                  !.history = Append(p.history, Len(p.heap) + 1),
                  !.current_step = p.current_step + 1,
                  !.saved = TRUE,
                  !.dropped = 0])

\* save_state truncating to history[:current_step]
save_state_short(p) ==
    LET kept == SubSeq(p.history, 1, p.current_step)
    IN  update_undo_redo(
            [p EXCEPT !.heap = Append(@, CurrentValue(p)),
                      !.history = Append(kept, Len(p.heap) + 1),
                      !.current_step = p.current_step + 1,
                      !.saved = TRUE,
                      !.dropped = Len(p.history) - Len(kept)])

save_state(p) ==
    LET kept == SubSeq(p.history, 1, p.current_step + 1)
    IN  update_undo_redo(
            [p EXCEPT !.heap = Append(@, CurrentValue(p)),
                      !.history = Append(kept, Len(p.heap) + 1),
                      !.current_step = p.current_step + 1,
                      !.saved = TRUE,
                      !.dropped = Len(p.history) - Len(kept)])

\* load_data, the file dialog having returned path ("" when cancelled)
load_data(p0, path) ==
    LET p == Enter(p0)
        excel == ~EndsWith(path, <<".","c","s","v">>)
        failed(q) == [q EXCEPT !.dialog = "Loading Error"]
    IN  IF path = <<>> THEN p
        ELSE IF (IF excel THEN ReadExcelRaises(path) ELSE ReadCsvRaises(path))
        THEN failed(p)
        ELSE LET df == IF excel THEN ReadExcel(path) ELSE ReadCsv(path)
                 p1 == SetCurrentNew(p, df)
             IN  IF populate_table_raises(p1) THEN failed(p1)
                 ELSE LET p2 == save_state(p1)
                      IN  IF update_controls_raises(p2) THEN failed(p2)
                          ELSE update_controls(p2)

\* undo_action with the guard current_step >= 0 (history[-1] is the last entry)
undo_action_from_zero(p0) ==
    LET p == Enter(p0)
    IN  IF p.current_step >= 0
        THEN LET at == IF p.current_step = 0 THEN Len(p.history) ELSE p.current_step
                 p1 == SetCurrentNew([p EXCEPT !.current_step = @ - 1],
                                     Deref(p, p.history[at]))
             IN  IF populate_table_raises(p1) THEN [p1 EXCEPT !.alive = FALSE]
                 ELSE update_undo_redo(p1)
        ELSE p

\* undo_action without the copy: current_df is the stored snapshot itself
undo_action_shared(p0) ==
    LET p == Enter(p0)
    IN  IF p.current_step > 0
        THEN LET p1 == [p EXCEPT !.current_step = @ - 1,
                                 !.current_df = p.history[p.current_step]]
             IN  IF populate_table_raises(p1) THEN [p1 EXCEPT !.alive = FALSE]
                 ELSE update_undo_redo(p1)
        ELSE p

\* undo_action reading the snapshot before it moves the cursor
undo_action_swapped(p0) ==
    LET p == Enter(p0)
    IN  IF p.current_step > 0
        THEN LET p1 == SetCurrentNew([p EXCEPT !.current_step = @ - 1],
                                     Deref(p, p.history[p.current_step + 1]))
             IN  IF populate_table_raises(p1) THEN [p1 EXCEPT !.alive = FALSE]
                 ELSE update_undo_redo(p1)
        ELSE p

undo_action(p0) ==
    LET p == Enter(p0)
    IN  IF p.current_step > 0
        THEN LET p1 == SetCurrentNew([p EXCEPT !.current_step = @ - 1],
                                     Deref(p, p.history[p.current_step]))
             IN  IF populate_table_raises(p1) THEN [p1 EXCEPT !.alive = FALSE]
                 ELSE update_undo_redo(p1)
        ELSE p

\* redo_action that moves the cursor and keeps the working dataset
redo_action_stale(p0) ==
    LET p == Enter(p0)
    IN  IF p.current_step < Len(p.history) - 1
        THEN update_undo_redo([p EXCEPT !.current_step = @ + 1])
        ELSE p

\* redo_action with the guard current_step <= len(history)-1: at the newest
\* entry history[current_step] raises IndexError after the cursor moved
redo_action_inclusive(p0) ==
    LET p == Enter(p0)
    IN  IF p.current_step <= Len(p.history) - 1
        THEN IF p.current_step + 2 > Len(p.history)
             THEN [p EXCEPT !.current_step = @ + 1, !.alive = FALSE]
             ELSE LET p1 == SetCurrentNew([p EXCEPT !.current_step = @ + 1],
                                          Deref(p, p.history[p.current_step + 2]))
                  IN  IF populate_table_raises(p1) THEN [p1 EXCEPT !.alive = FALSE]
                      ELSE update_undo_redo(p1)
        ELSE p

redo_action(p0) ==
    LET p == Enter(p0)
    IN  IF p.current_step < Len(p.history) - 1
        THEN LET p1 == SetCurrentNew([p EXCEPT !.current_step = @ + 1],
                                     Deref(p, p.history[p.current_step + 2]))
             IN  IF populate_table_raises(p1) THEN [p1 EXCEPT !.alive = FALSE]
                 ELSE update_undo_redo(p1)
        ELSE p

(***************************************************************************)
(* CleaningDialog                                                          *)
(***************************************************************************)
TextDoNothing == <<"D","o"," ","n","o","t","h","i","n","g">>
TextDropNA    == <<"D","r","o","p"," ","N","A">>
TextFillNA    == <<"F","i","l","l"," ","N","A">>
TextMean      == <<"M","e","a","n">>
TextMedian    == <<"M","e","d","i","a","n">>
TextNone      == <<"N","o","n","e">>
TextZScore    == <<"Z","-","S","c","o","r","e">>

\* what the user can select in the dialog
\* (fill_combo stays at its first item unless 'Fill NA' is selected)
Selections ==
    { sel \in [missing_combo : {TextDoNothing, TextDropNA, TextFillNA},
               fill_combo : {TextMean, TextMedian},
               duplicates_check : BOOLEAN,
               outlier_combo : {TextNone, TextZScore}] :
        sel.missing_combo # TextFillNA => sel.fill_combo = TextMean }

get_operations(sel) ==
    [handle_missing |-> Lower(Split(sel.missing_combo)[1]),
     fill_method |-> Lower(sel.fill_combo),
     remove_duplicates |-> sel.duplicates_check,
     outlier_method |-> Lower(sel.outlier_combo)]

NoOperations ==
    [handle_missing |-> <<>>, fill_method |-> <<>>, remove_duplicates |-> FALSE,
     outlier_method |-> <<>>]

\* the missing-value step of apply_cleaning
CleanMissingRaises(df, ops) ==
    /\ ops.handle_missing = <<"f","i","l","l">>
    /\ ops.fill_method \in { <<"m","e","a","n">>, <<"m","e","d","i","a","n">> }
    /\ ReduceRaises(df)

CleanMissing(df, ops) ==
    IF ops.handle_missing = <<"d","r","o","p">> THEN DropNa(df)
    ELSE IF ops.handle_missing = <<"f","i","l","l">>
    THEN IF ops.fill_method = <<"m","e","a","n">> THEN FillNa(df, Means(df))
         ELSE IF ops.fill_method = <<"m","e","d","i","a","n">>
         THEN FillNa(df, Medians(df))
         ELSE df
    ELSE df

CleanDuplicates(df, ops) == IF ops.remove_duplicates THEN DropDuplicates(df) ELSE df

\* the outlier step, run whatever the combo says
CleanOutliers_always(df, ops) == ZScoreFilter(df)

\* the outlier step of apply_cleaning
CleanOutliers(df, ops) ==
    IF ops.outlier_method = <<"z","s","c","o","r","e">> THEN ZScoreFilter(df) ELSE df

\* apply_cleaning that commits before a step that can fail is not the code's
\* order; the code's order is: assign, save_state, populate_table
apply_cleaning(p0, ops) ==
    LET p == Enter(p0)
        df0 == CurrentValue(p)
    IN  IF CleanMissingRaises(df0, ops) THEN [p EXCEPT !.dialog = "Error"]
        ELSE LET df == CleanOutliers(CleanDuplicates(CleanMissing(df0, ops), ops), ops)
                 p1 == save_state(SetCurrentNew(p, df))
             IN  IF populate_table_raises(p1) THEN [p1 EXCEPT !.dialog = "Error"]
                 ELSE [p1 EXCEPT !.dialog = "Success"]

(***************************************************************************)
(* FilterDialog                                                            *)
(***************************************************************************)
\* the items of operator_combo the user picks
FilterOps == { <<"=","=">>, <<">">> }

\* what the user can type in value_edit: nothing, a number, a name
FilterValues == { <<>>, <<"2">>, <<"z","z">> }

\* FilterDialog.__init__ raises when a column label is no str (addItems)
filter_dialog_raises(p) ==
    \E j \in 1..Len(CurrentValue(p).cols) : ~CurrentValue(p).cols[j].isstr

\* column_combo: the columns of current_df; currentText() of an empty combo is ""
ColumnChoices(p) ==
    LET df == CurrentValue(p)
    IN  IF df.cols = <<>> THEN { <<>> }
        ELSE { <<df.cols[j].name>> : j \in 1..Len(df.cols) }

get_filter(col, op, val) ==
    <<BackQuote>> \o col \o <<BackQuote, " ">> \o op \o <<" ">> \o val

\* apply_filter that keeps the working object when the query raises nothing
\* and stores the result without save_state
apply_filter_unsaved(p0, expr) ==
    LET p == Enter(p0)
    IN  IF QueryRaises(CurrentValue(p), expr) THEN [p EXCEPT !.dialog = "Filter Error"]
        ELSE [SetCurrentNew(p, Query(CurrentValue(p), expr)) EXCEPT !.dialog = "Success"]

\* apply_filter that assigns before it evaluates: a raising query empties the frame
apply_filter_eager(p0, expr) ==
    LET p == Enter(p0)
    IN  IF QueryRaises(CurrentValue(p), expr)
        THEN [SetCurrentNew(p, Frame(CurrentValue(p).cols, <<>>))
                 EXCEPT !.dialog = "Filter Error"]
        ELSE LET p1 == save_state(SetCurrentNew(p, Query(CurrentValue(p), expr)))
             IN  IF populate_table_raises(p1) THEN [p1 EXCEPT !.dialog = "Filter Error"]
                 ELSE [p1 EXCEPT !.dialog = "Success"]

apply_filter(p0, expr) ==
    LET p == Enter(p0)
    IN  IF QueryRaises(CurrentValue(p), expr) THEN [p EXCEPT !.dialog = "Filter Error"]
        ELSE LET p1 == save_state(SetCurrentNew(p, Query(CurrentValue(p), expr)))
             IN  IF populate_table_raises(p1) THEN [p1 EXCEPT !.dialog = "Filter Error"]
                 ELSE [p1 EXCEPT !.dialog = "Success"]

(***************************************************************************)
(* The run of undos and redos that follows a push.                         *)
(***************************************************************************)
NoRun == [on |-> FALSE, step |-> -1, value |-> EmptyFrame, undos |-> 0, redos |-> 0]

\* the run after handler `action` took the panel to q
RunAfter(action, q) ==
    IF q.saved
    THEN [on |-> TRUE, step |-> q.current_step, value |-> CurrentValue(q),
          undos |-> 0, redos |-> 0]
    ELSE IF action = "undo_action" /\ undo_run.on /\ undo_run.redos = 0
    THEN [undo_run EXCEPT !.undos = @ + 1]
    ELSE IF action = "redo_action" /\ undo_run.on /\ undo_run.redos < undo_run.undos
    THEN [undo_run EXCEPT !.redos = @ + 1]
    ELSE NoRun

(***************************************************************************)
(* Actions of the panel: one per slot.                                     *)
(***************************************************************************)
\* the panel's fields become those of q
Commit(action, q) ==
    /\ Len(q.history) <= MaxHist
    /\ heap' = q.heap
    /\ current_df' = q.current_df
    /\ history' = q.history
    /\ current_step' = q.current_step
    /\ undo_btn' = q.undo_btn
    /\ redo_btn' = q.redo_btn
    /\ clean_btn' = q.clean_btn
    /\ dialog' = q.dialog
    /\ alive' = q.alive
    /\ saved' = q.saved
    /\ dropped' = q.dropped
    /\ last_action' = action
    /\ undo_run' = RunAfter(action, q)
    /\ UNCHANGED <<page, term_vars, sql_vars>>

\* the handler `action` has taken the panel's fields to q
Becomes(action, q) == Commit(action, Collect(q))

\* the paths the file dialog returns: a table, a sheet with integer labels, a
\* header without rows, an unparseable file, and "" when the dialog is cancelled
PanelPaths == { PathSmall, PathYears, PathEmpty, PathBad, <<>> }

\* numbers only, and the table with an outlier
NumericPaths == { PathNumbers, PathOutlier }

LoadDataFrom(paths) ==
    /\ page = "data" /\ alive
    /\ \E path \in paths : Becomes("load_data", load_data(Panel, path))
    /\ operations' = NoOperations
    /\ filter_expr' = <<>>

LoadData == LoadDataFrom(PanelPaths)

\* show_cleaning_dialog, the dialog accepted
ShowCleaningDialog ==
    /\ page = "data" /\ alive /\ clean_btn
    /\ \E sel \in Selections :
          /\ operations' = get_operations(sel)
          /\ Becomes("apply_cleaning", apply_cleaning(Panel, get_operations(sel)))
    /\ filter_expr' = <<>>

\* show_filter_dialog, the dialog accepted
ShowFilterDialog ==
    /\ page = "data" /\ alive /\ clean_btn /\ ~filter_dialog_raises(Panel)
    /\ \E col \in ColumnChoices(Panel), op \in FilterOps, val \in FilterValues :
          /\ filter_expr' = get_filter(col, op, val)
          /\ Becomes("apply_filter", apply_filter(Panel, get_filter(col, op, val)))
    /\ operations' = NoOperations

\* show_filter_dialog on a frame whose labels are no strings: the slot raises
ShowFilterDialogRaises ==
    /\ page = "data" /\ alive /\ clean_btn /\ filter_dialog_raises(Panel)
    /\ Becomes("show_filter_dialog", [Enter(Panel) EXCEPT !.alive = FALSE])
    /\ operations' = NoOperations
    /\ filter_expr' = <<>>

UndoAction ==
    /\ page = "data" /\ alive /\ undo_btn
    /\ Becomes("undo_action", undo_action(Panel))
    /\ operations' = NoOperations
    /\ filter_expr' = <<>>

RedoAction ==
    /\ page = "data" /\ alive /\ redo_btn
    /\ Becomes("redo_action", redo_action(Panel))
    /\ operations' = NoOperations
    /\ filter_expr' = <<>>

PanelInit ==
    /\ heap = <<EmptyFrame>>
    /\ current_df = 1
    /\ history = <<>>
    /\ current_step = -1
    /\ undo_btn = TRUE
    /\ redo_btn = TRUE
    /\ clean_btn = FALSE
    /\ dialog = "none"
    /\ alive = TRUE
    /\ saved = FALSE
    /\ dropped = 0
    /\ last_action = "__init__"
    /\ operations = NoOperations
    /\ filter_expr = <<>>
    /\ undo_run = NoRun

(***************************************************************************)
(* SQLInterface: the query history of the SQL panel                        *)
(***************************************************************************)
\* the panel's fields as one record
Sql ==
    [query_history |-> query_history, history_list |-> history_list,
     current_history_index |-> current_history_index, editor |-> editor,
     tables |-> tables, info_bar |-> info_bar, evicted |-> evicted]

\* the texts the user types into the editor
SelectOne == <<"S","E","L","E","C","T"," ","1">>
SelectTwo == <<"s","e","l","e","c","t"," ","2">>
SelectThree == <<"S","E","L","E","C","T"," ","3">>
CreateT == <<"C","R","E","A","T","E"," ","T","A","B","L","E"," ","t"," ","(","x",")">>
DropT == <<"D","R","O","P"," ","T","A","B","L","E"," ","t">>
CreateSpaced == <<"C","R","E","A","T","E"," ","T","A","B","L","E"," ","[","a"," ","b","]"," ","(","x",")">>
Misspelt == <<"S","E","L","E","C"," ","1">>

SqlTexts ==
    {SelectOne, <<" ">> \o SelectOne \o <<" ">>, SelectTwo, SelectThree,
     CreateT, DropT, CreateSpaced, Misspelt, <<>>, <<" ", " ">>}

\* self.cursor.execute("EXPLAIN QUERY PLAN " + query), self.cursor.execute(query):
\* sqlite3.Error or the tables afterwards
sqlite_execute(db, query) ==
    IF UpperCase(query) \in {UpperCase(SelectOne), UpperCase(SelectTwo),
                             UpperCase(SelectThree)}
    THEN [error |-> FALSE, tables |-> db]
    ELSE IF UpperCase(query) = UpperCase(CreateT) /\ "t" \notin db
    THEN [error |-> FALSE, tables |-> db \cup {"t"}]
    ELSE IF UpperCase(query) = UpperCase(DropT) /\ "t" \in db
    THEN [error |-> FALSE, tables |-> db \ {"t"}]
    ELSE IF UpperCase(query) = UpperCase(CreateSpaced) /\ "a b" \notin db
    THEN [error |-> FALSE, tables |-> db \cup {"a b"}]
    ELSE [error |-> TRUE, tables |-> db]

\* update_schema_browser raises sqlite3.Error: PRAGMA table_info(a b)
update_schema_browser_raises(db) == "a b" \in db

\* showError
showError(s, title) == [s EXCEPT !.info_bar = Append(@, title)]

\* the item add_to_history makes for the query
QListWidgetItem(query) ==
    [text |-> query,
     icon |-> IF StartsWith(UpperCase(query), <<"S","E","L","E","C","T">>) THEN "SEARCH"
              ELSE IF \E cmd \in {<<"I","N","S","E","R","T">>, <<"U","P","D","A","T","E">>, <<"D","E","L","E","T","E">>} :
                          StartsWith(UpperCase(query), cmd) THEN "EDIT"
              ELSE "DOCUMENT"]

\* s[:i] + s[i+1:], i a 0-based index
PopAt(s, i) == SubSeq(s, 1, i) \o SubSeq(s, i + 2, Len(s))

add_to_history_unbounded(s, query) ==
    IF query \in Range(s.query_history) THEN s
    ELSE [s EXCEPT !.query_history = Append(@, query),
                   !.history_list = Append(@, QListWidgetItem(query)),
                   !.current_history_index = Len(s.query_history)]

\* add_to_history
add_to_history(s, query) ==
    IF query \in Range(s.query_history) THEN s
    ELSE LET full == Len(s.query_history) >= MaxStored
             kept == IF full THEN Tail(s.query_history) ELSE s.query_history
             items == IF full /\ s.history_list # <<>> THEN Tail(s.history_list)
                      ELSE s.history_list
         IN  [s EXCEPT !.query_history = Append(kept, query),
                       !.history_list = Append(items, QListWidgetItem(query)),
                       !.current_history_index = Len(kept),
                       !.evicted = IF full THEN 1 ELSE 0]

\* clear_history
clear_history(s) ==
    [s EXCEPT !.query_history = <<>>, !.history_list = <<>>,
              !.current_history_index = -1]

\* no item of the list is the current one
NoItem == -1

delete_history_item_keeping_index(s, row) ==
    IF row = NoItem THEN s
    ELSE [s EXCEPT !.history_list = PopAt(@, row), !.query_history = PopAt(@, row)]

\* delete_history_item; row is the row of self.history_list.currentItem()
delete_history_item(s, row) ==
    IF row = NoItem THEN s
    ELSE LET kept == PopAt(s.query_history, row)
         IN  [s EXCEPT !.history_list = PopAt(@, row),
                       !.query_history = kept,
                       !.current_history_index =
                           IF @ < Len(kept) - 1 THEN @ ELSE Len(kept) - 1]

\* load_history_query; row is the row of the clicked item
load_history_query(s, row) ==
    [s EXCEPT !.editor = s.history_list[row + 1].text,
              !.current_history_index = row]

\* history_prev
history_prev(s) ==
    IF s.query_history = <<>> THEN s
    ELSE LET i == IF s.current_history_index - 1 > 0
                  THEN s.current_history_index - 1 ELSE 0
         IN  [s EXCEPT !.current_history_index = i,
                       !.editor = s.query_history[i + 1]]

\* history_next
history_next(s) ==
    IF s.query_history = <<>> THEN s
    ELSE LET i == IF s.current_history_index + 1 < Len(s.query_history) - 1
                  THEN s.current_history_index + 1
                  ELSE Len(s.query_history) - 1
         IN  [s EXCEPT !.current_history_index = i,
                       !.editor = s.query_history[i + 1]]

executeQuery_eager(s, text) ==
    LET query == Strip(text)
        typed == [s EXCEPT !.editor = text]
    IN  IF query = <<>> THEN typed
        ELSE LET r == sqlite_execute(typed.tables, query)
                 added == add_to_history(typed, query)
             IN  IF r.error THEN showError(added, "SQL Error")
                 ELSE [added EXCEPT !.tables = r.tables]

\* executeQuery on the text the user typed into the editor
executeQuery(s, text) ==
    LET query == Strip(text)
        typed == [s EXCEPT !.editor = text]
    IN  IF query = <<>> THEN typed
        ELSE LET r == sqlite_execute(typed.tables, query)
                 ran == [typed EXCEPT !.tables = r.tables]
                 shown == IF StartsWith(UpperCase(query), <<"S","E","L","E","C","T">>) THEN ran
                          ELSE showError(ran, "Success")
                 schema == \E cmd \in {<<"C","R","E","A","T","E">>, <<"A","L","T","E","R">>, <<"D","R","O","P">>} :
                              \E i \in 0..Len(query) :
                                  StartsWith(Drop(UpperCase(query), i), cmd)
             IN  IF r.error THEN showError(typed, "SQL Error")
                 ELSE IF schema /\ update_schema_browser_raises(r.tables)
                 THEN showError(shown, "SQL Error")
                 ELSE add_to_history(shown, query)

\* the handler `kind` has taken the panel's fields to s
SqlCommit(s, kind) ==
    /\ query_history' = s.query_history
    /\ history_list' = s.history_list
    /\ current_history_index' = s.current_history_index
    /\ editor' = s.editor
    /\ tables' = s.tables
    /\ info_bar' = s.info_bar
    /\ evicted' = s.evicted
    /\ sql_event' = [kind |-> kind]
    /\ UNCHANGED <<page, panel_vars, term_vars>>

\* a handler starts: no info bar shown yet, nothing dropped yet
SqlEntered == [Sql EXCEPT !.info_bar = <<>>, !.evicted = 0]

ExecuteQuery ==
    /\ page = "sql"
    /\ \E text \in SqlTexts :
           SqlCommit(executeQuery(SqlEntered, text), "executeQuery")

LoadHistoryQuery ==
    /\ page = "sql"
    /\ \E row \in 0..(Len(history_list) - 1) :
           SqlCommit(load_history_query(SqlEntered, row), "load_history_query")

\* Delete in the context menu; any item of the list, or none, is the current one
DeleteHistoryItem ==
    /\ page = "sql"
    /\ \E row \in {NoItem} \cup 0..(Len(history_list) - 1) :
           SqlCommit(delete_history_item(SqlEntered, row), "delete_history_item")

ClearHistory ==
    /\ page = "sql"
    /\ SqlCommit(clear_history(SqlEntered), "clear_history")

SqlHistoryPrev ==
    /\ page = "sql"
    /\ SqlCommit(history_prev(SqlEntered), "history_prev")

SqlHistoryNext ==
    /\ page = "sql"
    /\ SqlCommit(history_next(SqlEntered), "history_next")

SqlInit ==
    /\ query_history = <<>>
    /\ history_list = <<>>
    /\ current_history_index = -1
    /\ editor = <<>>
    /\ tables = {}
    /\ info_bar = <<>>
    /\ evicted = 0
    /\ sql_event = [kind |-> "__init__"]

(***************************************************************************)
(* TerminalInterface.  A line of the scrollback is a record: the mark it    *)
(* starts with, its fixed text, the number, the text and the table it       *)
(* renders.  OkMark stands for the check mark and FailMark for the ballot   *)
(* cross that the code writes.                                              *)
(***************************************************************************)
OkMark == "OK"
FailMark == "FAIL"
NoMark == ""

Line(mark, msg, n, arg, frame) ==
    [mark |-> mark, msg |-> msg, n |-> n, arg |-> arg, frame |-> frame]

Ok(msg, n) == Line(OkMark, msg, n, <<>>, EmptyFrame)
Fail(msg) == Line(FailMark, msg, 0, <<>>, EmptyFrame)
Text(msg, arg) == Line(NoMark, msg, 0, arg, EmptyFrame)
Table(msg, frame) == Line(NoMark, msg, 0, <<>>, frame)

\* the terminal's fields as one record
Terminal ==
    [heap |-> term_heap, current_df |-> term_current_df, data_env |-> data_env,
     history |-> term_history, history_index |-> history_index,
     plot_count |-> plot_count, shell_input |-> shell_input,
     scrollback |-> scrollback, input |-> input,
     process |-> process, pending |-> pending]

None == 0

\* the value of the terminal's dataset
Bound(t) == t.heap[t.current_df]

\* unreferenced objects are collected; current_df's object comes first
TermCollect(t) ==
    LET cur == t.current_df
        env == t.data_env.df
    IN  IF cur # None
        THEN [t EXCEPT
                !.heap = IF env # None /\ env # cur
                         THEN <<t.heap[cur], t.heap[env]>> ELSE <<t.heap[cur]>>,
                !.current_df = 1,
                !.data_env = [df |-> IF env = None THEN None
                                     ELSE IF env = cur THEN 1 ELSE 2]]
        ELSE [t EXCEPT
                !.heap = IF env # None THEN <<t.heap[env]>> ELSE <<>>,
                !.data_env = [df |-> IF env = None THEN None ELSE 1]]

\* appendOutput, and terminal.appendPlainText
appendOutput(t, line) == [t EXCEPT !.scrollback = Append(@, line)]

\* DataFrame.head() and DataFrame.tail(): five rows
HeadRows == 5

FrameHead(df) ==
    Frame(df.cols, SubSeq(df.rows, 1, IF Len(df.rows) < HeadRows THEN Len(df.rows)
                                      ELSE HeadRows))
FrameTail(df) ==
    Frame(df.cols, SubSeq(df.rows,
                          IF Len(df.rows) < HeadRows THEN 1
                          ELSE Len(df.rows) - HeadRows + 1,
                          Len(df.rows)))

\* loadData that binds only the environment's name
loadData_env_only(t, filepath) ==
    LET path == Strip(filepath)
    IN  IF ReadCsvRaises(path) THEN appendOutput(t, Fail("Load error"))
        ELSE LET df == ReadCsv(path)
                 t1 == [t EXCEPT !.heap = Append(@, df),
                                 !.data_env = [df |-> Len(t.heap) + 1]]
             IN  appendOutput(appendOutput(t1, Ok("Loaded rows", Len(df.rows))),
                              Table("head", FrameHead(df)))

\* loadData that unbinds the dataset before it reads the file
loadData_clearing(t, filepath) ==
    LET path == Strip(filepath)
    IN  IF ReadCsvRaises(path)
        THEN appendOutput([t EXCEPT !.current_df = None, !.data_env = [df |-> None]],
                          Fail("Load error"))
        ELSE LET df == ReadCsv(path)
                 t1 == [t EXCEPT !.heap = Append(@, df),
                                 !.current_df = Len(t.heap) + 1,
                                 !.data_env = [df |-> Len(t.heap) + 1]]
             IN  appendOutput(appendOutput(t1, Ok("Loaded rows", Len(df.rows))),
                              Table("head", FrameHead(df)))

loadData(t, filepath) ==
    LET path == Strip(filepath)
    IN  IF ReadCsvRaises(path) THEN appendOutput(t, Fail("Load error"))
        ELSE LET df == ReadCsv(path)
                 t1 == [t EXCEPT !.heap = Append(@, df),
                                 !.current_df = Len(t.heap) + 1,
                                 !.data_env = [df |-> Len(t.heap) + 1]]
             IN  appendOutput(appendOutput(t1, Ok("Loaded rows", Len(df.rows))),
                              Table("head", FrameHead(df)))

showSummary(t) ==
    IF t.current_df # None
    THEN appendOutput(appendOutput(t, Table("info", Bound(t))),
                      Table("describe", Bound(t)))
    ELSE t

\* DataFrame.plot(): x, y and kind must name two columns and a plot kind; the
\* frame must hold a numeric column
PlotKinds == { <<"l","i","n","e">>, <<"b","a","r">>, <<"s","c","a","t","t","e","r">> }

HasNumeric(df) == \E j \in 1..Len(df.cols) : df.cols[j].numeric

PlotRaises(df, args) ==
    IF " " \in Range(args)
    THEN LET w == Split(args)
         IN  \/ Len(w) # 3
             \/ /\ Len(w) = 3
                /\ \/ ColumnsNamed(df, w[1]) = {}
                   \/ ColumnsNamed(df, w[2]) = {}
                   \/ w[3] \notin PlotKinds
                   \/ \E j \in ColumnsNamed(df, w[2]) : ~df.cols[j].numeric
    ELSE ~HasNumeric(df) \/ df.rows = <<>>

generatePlot(t, args) ==
    IF t.current_df # None
    THEN IF PlotRaises(Bound(t), args) THEN appendOutput(t, Fail("Plot error"))
         ELSE appendOutput([t EXCEPT !.plot_count = @ + 1],
                           Ok("Plot saved as plot_", t.plot_count + 1))
    ELSE t

\* df[column].hist(): the column must exist and be numeric
HistRaises(df, column) ==
    \/ ColumnsNamed(df, Strip(column)) = {}
    \/ \E j \in ColumnsNamed(df, Strip(column)) : ~df.cols[j].numeric

generateHist(t, column) ==
    IF t.current_df # None
    THEN IF HistRaises(Bound(t), column) THEN appendOutput(t, Fail("Hist error"))
         ELSE appendOutput([t EXCEPT !.plot_count = @ + 1],
                           Ok("Histogram saved as hist_", t.plot_count + 1))
    ELSE t

\* filterData that reports success and keeps the unfiltered frame bound
filterData_unbound(t, condition) ==
    IF t.current_df # None
    THEN IF QueryRaises(Bound(t), condition)
         THEN appendOutput(t, Ok("Filter applied. Remaining rows", Len(Bound(t).rows)))
         ELSE appendOutput(t, Ok("Filter applied. Remaining rows",
                                 Len(Query(Bound(t), condition).rows)))
    ELSE t

\* filterData that binds the rows selected so far when the query raises: an
\* expression that raises selects nothing
filterData_partial(t, condition) ==
    IF t.current_df # None
    THEN IF QueryRaises(Bound(t), condition)
         THEN appendOutput([t EXCEPT !.heap = Append(@, Frame(Bound(t).cols, <<>>)),
                                     !.current_df = Len(t.heap) + 1],
                           Fail("Filter error"))
         ELSE LET df == Query(Bound(t), condition)
              IN  appendOutput([t EXCEPT !.heap = Append(@, df),
                                         !.current_df = Len(t.heap) + 1],
                               Ok("Filter applied. Remaining rows", Len(df.rows)))
    ELSE t

filterData(t, condition) ==
    IF t.current_df # None
    THEN IF QueryRaises(Bound(t), condition) THEN appendOutput(t, Fail("Filter error"))
         ELSE LET df == Query(Bound(t), condition)
              IN  appendOutput([t EXCEPT !.heap = Append(@, df),
                                         !.current_df = Len(t.heap) + 1],
                               Ok("Filter applied. Remaining rows", Len(df.rows)))
    ELSE t

\* groupby(group_col)[agg_col].agg(['mean', 'sum', 'count']): two columns, the
\* aggregated one numeric
GroupByRaises(df, args) ==
    LET w == Split(args)
    IN  \/ Len(w) # 2
        \/ /\ Len(w) = 2
           /\ \/ ColumnsNamed(df, w[1]) = {}
              \/ ColumnsNamed(df, w[2]) = {}
              \/ \E j \in ColumnsNamed(df, w[2]) : ~df.cols[j].numeric

groupBy(t, args) ==
    IF t.current_df # None
    THEN IF GroupByRaises(Bound(t), args) THEN appendOutput(t, Fail("Groupby error"))
         ELSE appendOutput(t, Line(NoMark, "Grouped results", 0, args, Bound(t)))
    ELSE t

showHead(t) ==
    IF t.current_df # None THEN appendOutput(t, Table("head", FrameHead(Bound(t)))) ELSE t

showTail(t) ==
    IF t.current_df # None THEN appendOutput(t, Table("tail", FrameTail(Bound(t))))
    ELSE t

\* ', '.join(columns) raises TypeError on a label that is no str; the exception
\* reaches handleDataCommand
showColumns_raises(t) ==
    t.current_df # None /\ \E j \in 1..Len(Bound(t).cols) : ~Bound(t).cols[j].isstr

showColumns(t) ==
    IF t.current_df # None
    THEN appendOutput(t, Table("Columns", Frame(Bound(t).cols, <<>>)))
    ELSE t

showDtypes(t) ==
    IF t.current_df # None
    THEN appendOutput(t, Table("Data types", Frame(Bound(t).cols, <<>>)))
    ELSE t

\* cleanData with dropna() not in place: the cleaned frame is discarded
cleanData_discarding(t) ==
    IF t.current_df # None
    THEN appendOutput(t, Ok("Data cleaned. Removed rows", 0))
    ELSE t

\* cleanData: dropna(inplace=True) changes the object current_df refers to
cleanData(t) ==
    IF t.current_df # None
    THEN LET initial_rows == Len(Bound(t).rows)
             cleaned == DropNa(Bound(t))
         IN  appendOutput([t EXCEPT !.heap[t.current_df] = cleaned],
                          Ok("Data cleaned. Removed rows",
                             initial_rows - Len(cleaned.rows)))
    ELSE t

showCorrelation(t) ==
    IF t.current_df # None
    THEN IF HasNumeric(Bound(t)) /\ Bound(t).rows # <<>>
         THEN appendOutput(t, Table("Correlation matrix", Bound(t)))
         ELSE appendOutput(t, Fail("No numeric columns to calculate correlations"))
    ELSE t

\* eval(expr, globals, locals): a name is looked up in locals, then in globals
EvalName(name, globals, locals) ==
    IF name \in DOMAIN locals THEN locals[name] ELSE globals[name]

\* eval resolving names in the globals alone
EvalName_globals(name, globals, locals) == globals[name]

\* the object the name df denotes in evalMath
EvalDf(t) == EvalName("df", [df |-> t.current_df], t.data_env)

\* the expressions the model evaluates: len(df) and df; eval raises on len(None)
\* and on a name that is not bound
ExprLen == <<"l","e","n","(","d","f",")">>
ExprDf == <<"d","f">>

EvalRaises(t, expr) ==
    LET e == Strip(expr)
    IN  \/ e \notin {ExprLen, ExprDf}
        \/ e = ExprLen /\ EvalDf(t) = None

evalMath(t, expr) ==
    IF EvalRaises(t, expr) THEN appendOutput(t, Fail("Math error"))
    ELSE IF Strip(expr) = ExprLen
         THEN appendOutput(t, Line(NoMark, "= ", Len(t.heap[EvalDf(t)].rows), <<>>,
                                   EmptyFrame))
         ELSE appendOutput(t, Line(NoMark, "= ", 0, <<>>,
                                   IF EvalDf(t) = None THEN EmptyFrame
                                   ELSE t.heap[EvalDf(t)]))

handleDataCommand(t, command) ==
    IF StartsWith(command, <<"l","o","a","d"," ">>) THEN loadData(t, Drop(command, 5))
    ELSE IF command = <<"s","u","m","m","a","r","y">> THEN showSummary(t)
    ELSE IF StartsWith(command, <<"p","l","o","t"," ">>) THEN generatePlot(t, Drop(command, 5))
    ELSE IF StartsWith(command, <<"h","i","s","t"," ">>) THEN generateHist(t, Drop(command, 5))
    ELSE IF StartsWith(command, <<"f","i","l","t","e","r"," ">>) THEN filterData(t, Drop(command, 7))
    ELSE IF StartsWith(command, <<"g","r","o","u","p","b","y"," ">>) THEN groupBy(t, Drop(command, 8))
    ELSE IF command = <<"h","e","a","d">> THEN showHead(t)
    ELSE IF command = <<"t","a","i","l">> THEN showTail(t)
    ELSE IF command = <<"c","o","l","u","m","n","s">>
         THEN IF showColumns_raises(t)
              THEN appendOutput(t, Fail("Error processing command"))
              ELSE showColumns(t)
    ELSE IF command = <<"d","t","y","p","e","s">> THEN showDtypes(t)
    ELSE IF command = <<"c","l","e","a","n">> THEN cleanData(t)
    ELSE IF command = <<"c","o","r","r">> THEN showCorrelation(t)
    ELSE IF StartsWith(command, <<"=">>) THEN evalMath(t, Drop(command, 1))
    ELSE appendOutput(t, Line(FailMark, "Unknown command", 0, command, EmptyFrame))

\* the prefixes executeCommand hands to handleDataCommand
DataPrefixes ==
    { <<"l","o","a","d">>,
      <<"s","u","m","m","a","r","y">>,
      <<"p","l","o","t">>,
      <<"h","i","s","t">>,
      <<"f","i","l","t","e","r">>,
      <<"g","r","o","u","p","b","y">>,
      <<"h","e","a","d">>,
      <<"t","a","i","l">>,
      <<"c","o","l","u","m","n","s">>,
      <<"d","t","y","p","e","s">>,
      <<"c","l","e","a","n">>,
      <<"c","o","r","r">>,
      <<"=">> }

\* the test for a verb followed by a blank or by nothing
IsDataCommand_word(command) ==
    \E prefix \in DataPrefixes :
        command = prefix \/ StartsWith(command, prefix \o <<" ">>)

IsDataCommand(command) == \E prefix \in DataPrefixes : StartsWith(command, prefix)

\* startShell: QProcess.start of the shell, which can fail to start
Running == "Running"
NotRunning == "NotRunning"

startShell(started) == IF started THEN Running ELSE NotRunning

\* readOutput: the text readAll() returns is appended; the line records how
\* many chunks the shell had written
ShellText(chunks) == Line(NoMark, "stdout", Len(chunks), <<>>, EmptyFrame)

readOutput(t) == appendOutput([t EXCEPT !.pending = <<>>], ShellText(t.pending))

\* stopProcess: kill() of a running shell, and the line that reports it
stopProcess(t) ==
    IF t.process = Running
    THEN appendOutput([t EXCEPT !.process = NotRunning],
                      Fail("Process terminated by user"))
    ELSE t

\* executeCommand that advances history_index by one instead of setting it
executeCommand_advancing(t0, text) ==
    LET t == [t0 EXCEPT !.input = text]
        command == Strip(text)
    IN  IF command = <<>> THEN t
        ELSE LET t1 == [t EXCEPT !.history = Append(@, command),
                                 !.history_index = @ + 1]
             IN  [(IF IsDataCommand(command)
                   THEN handleDataCommand(appendOutput(t1, Text(">>> ", command)),
                                          command)
                   ELSE [appendOutput(t1, Text("$ ", command))
                            EXCEPT !.shell_input = Append(@, command \o <<"\n">>)])
                  EXCEPT !.input = <<>>]

\* executeCommand that lets pending signals be handled after the echo
executeCommand_pumping(t0, text) ==
    LET t == [t0 EXCEPT !.input = text]
        command == Strip(text)
    IN  IF command = <<>> THEN t
        ELSE LET t1 == [t EXCEPT !.history = Append(@, command),
                                 !.history_index = Len(t.history) + 1]
                 pump(u) == IF u.pending # <<>> THEN readOutput(u) ELSE u
             IN  [(IF IsDataCommand(command)
                   THEN handleDataCommand(pump(appendOutput(t1, Text(">>> ", command))),
                                          command)
                   ELSE [appendOutput(t1, Text("$ ", command))
                            EXCEPT !.shell_input = Append(@, command \o <<"\n">>)])
                  EXCEPT !.input = <<>>]

\* executeCommand, self.input holding text
executeCommand(t0, text) ==
    LET t == [t0 EXCEPT !.input = text]
        command == Strip(text)
    IN  IF command = <<>> THEN t
        ELSE LET t1 == [t EXCEPT !.history = Append(@, command),
                                 !.history_index = Len(t.history) + 1]
             IN  [(IF IsDataCommand(command)
                   THEN handleDataCommand(appendOutput(t1, Text(">>> ", command)),
                                          command)
                   ELSE [appendOutput(t1, Text("$ ", command))
                            EXCEPT !.shell_input = Append(@, command \o <<"\n">>)])
                  EXCEPT !.input = <<>>]

\* navigateHistory that shows the entry the pointer was on before the move
navigateHistory_late(t, direction) ==
    IF t.history = <<>> THEN t
    ELSE LET i == t.history_index + direction
             clamped == IF i < 0 THEN 0
                        ELSE IF i > Len(t.history) - 1 THEN Len(t.history) - 1 ELSE i
             shown == IF t.history_index > Len(t.history) - 1 THEN Len(t.history) - 1
                      ELSE t.history_index
         IN  [t EXCEPT !.history_index = clamped, !.input = t.history[shown + 1]]

navigateHistory_wrapping(t, direction) ==
    IF t.history = <<>> THEN t
    ELSE LET i == (t.history_index + direction) % Len(t.history)
         IN  [t EXCEPT !.history_index = i, !.input = t.history[i + 1]]

\* navigateHistory: history_index is a 0-based index
navigateHistory(t, direction) ==
    IF t.history = <<>> THEN t
    ELSE LET i == t.history_index + direction
             clamped == IF i < 0 THEN 0
                        ELSE IF i > Len(t.history) - 1 THEN Len(t.history) - 1 ELSE i
         IN  [t EXCEPT !.history_index = clamped, !.input = t.history[clamped + 1]]

\* eventFilter on a key press in self.input
KeyUpCode == "Key_Up"
KeyDownCode == "Key_Down"

eventFilter(t, key) ==
    IF key = KeyUpCode THEN navigateHistory(t, -1)
    ELSE IF key = KeyDownCode THEN navigateHistory(t, 1)
    ELSE t

\* the user pressed Return on text; a submitted command starts a new run of
\* Up presses
Returned(text) ==
    [kind |-> "return", text |-> text, from |-> history_index,
     ups |-> IF Strip(text) = <<>> THEN term_event.ups ELSE 0]

\* the user pressed a key: ups counts the Up presses since the last submitted
\* command while no Down press came between and an older entry was left
Pressed(key) ==
    [kind |-> key, text |-> <<>>, from |-> history_index,
     ups |-> IF key = KeyUpCode /\ term_event.ups >= 0
                               /\ term_event.ups < Len(term_history)
             THEN term_event.ups + 1 ELSE -1]

\* a signal of the shell process or a click on the command bar was handled
Handled(signal) ==
    [kind |-> signal, text |-> <<>>, from |-> history_index, ups |-> term_event.ups]

\* the terminal's fields become those of t
TermCommit(t, event) ==
    /\ term_heap' = t.heap
    /\ term_current_df' = t.current_df
    /\ data_env' = t.data_env
    /\ term_history' = t.history
    /\ history_index' = t.history_index
    /\ plot_count' = t.plot_count
    /\ shell_input' = t.shell_input
    /\ scrollback' = t.scrollback
    /\ input' = t.input
    /\ process' = t.process
    /\ pending' = t.pending
    /\ term_event' = event
    /\ UNCHANGED <<page, panel_vars, sql_vars>>

TermBecomes(t, event) == TermCommit(TermCollect(t), event)

\* the lines the user types
TermLines ==
    { <<"l","o","a","d"," ","s",".","c","s","v">>,
      <<"l","o","a","d"," ","m",".","c","s","v">>,
      <<"f","i","l","t","e","r"," ","a"," ",">"," ","2">>,
      <<"f","i","l","t","e","r"," ","a"," ",">">>,
      <<"f","i","l","t","e","r"," ","z","z"," ",">"," ","2">>,
      <<"f","i","l","t","e","r"," ","a"," ",">"," ","a",".","m","e","a","n","(",")">>,
      <<"c","l","e","a","n">>,
      <<"=","l","e","n","(","d","f",")">>,
      <<"c","o","l","u","m","n","s">>,
      <<"l","s">>,
      <<" ">> }

\* the user types one of the lines and presses Return
ExecuteFrom(lines, max) ==
    /\ page = "terminal"
    /\ Len(term_history) < max
    /\ \E text \in lines :
           TermBecomes(executeCommand(Terminal, text), Returned(text))

ExecuteCommand == ExecuteFrom(TermLines, MaxTermCmds)

\* the user presses Up or Down in the input field
KeyUp ==
    /\ page = "terminal"
    /\ TermBecomes(eventFilter(Terminal, KeyUpCode), Pressed(KeyUpCode))

KeyDown ==
    /\ page = "terminal"
    /\ TermBecomes(eventFilter(Terminal, KeyDownCode), Pressed(KeyDownCode))

TermFieldsInit ==
    /\ term_heap = <<>>
    /\ term_current_df = None
    /\ data_env = [df |-> None]
    /\ term_history = <<>>
    /\ history_index = -1
    /\ plot_count = 0
    /\ shell_input = <<>>
    /\ scrollback = <<>>
    /\ input = <<>>
    /\ pending = <<>>
    /\ term_event = [kind |-> "__init__", text |-> <<>>, from |-> -1, ups |-> -1]

\* the terminal after construction, the shell started
TermInit == TermFieldsInit /\ process = startShell(TRUE)

Init == page \in {"data", "terminal"} /\ PanelInit /\ TermInit /\ SqlInit

Next ==
    \/ LoadData
    \/ ShowCleaningDialog
    \/ ShowFilterDialog
    \/ ShowFilterDialogRaises
    \/ UndoAction
    \/ RedoAction
    \/ ExecuteCommand

Spec == Init /\ [][Next]_vars

\* the panel on the numeric tables
LoadNumeric == LoadDataFrom(NumericPaths)

NumericNext ==
    \/ LoadNumeric
    \/ ShowCleaningDialog
    \/ UndoAction
    \/ RedoAction

NumericInit == page = "data" /\ PanelInit /\ TermInit /\ SqlInit

NumericSpec == NumericInit /\ [][NumericNext]_vars

\* the terminal's command history: a few commands, the Up and Down keys
HistoryLines ==
    { <<"l","o","a","d"," ","s",".","c","s","v">>,
      <<"h","e","a","d">>,
      <<" ","c","o","l","u","m","n","s"," ">>,
      <<"l","s">>,
      <<" ">>,
      <<>> }

SubmitLine == ExecuteFrom(HistoryLines, MaxTermCmds)

HistoryNext ==
    \/ SubmitLine
    \/ KeyUp
    \/ KeyDown

HistoryInit == page = "terminal" /\ PanelInit /\ TermInit /\ SqlInit

HistorySpec == HistoryInit /\ [][HistoryNext]_vars

\* the terminal's dispatch: every verb, with and without a dataset, operations
\* that raise, words that only start like a verb, shell lines
DispatchLines ==
    { <<"l","o","a","d"," ","s",".","c","s","v">>,
      <<"l","o","a","d"," ","m",".","c","s","v">>,
      <<"s","u","m","m","a","r","y">>,
      <<"p","l","o","t"," ","a"," ","z","z"," ","l","i","n","e">>,
      <<"h","i","s","t"," ","b">>,
      <<"h","i","s","t"," ","a">>,
      <<"f","i","l","t","e","r"," ","a"," ",">">>,
      <<"g","r","o","u","p","b","y"," ","a">>,
      <<"h","e","a","d">>,
      <<" ","t","a","i","l"," ">>,
      <<"c","o","l","u","m","n","s">>,
      <<"d","t","y","p","e","s">>,
      <<"c","l","e","a","n">>,
      <<"c","o","r","r">>,
      <<"=","x">>,
      <<"=","l","e","n","(","d","f",")">>,
      <<"l","o","a","d","e","r">>,
      <<"h","e","a","d","l","e","s","s">>,
      <<"l","s">>,
      <<"e","c","h","o"," ","h","e","a","d">> }

Dispatch == ExecuteFrom(DispatchLines, MaxDispatchCmds)

DispatchNext == Dispatch \/ KeyUp

DispatchSpec == HistoryInit /\ [][DispatchNext]_vars

\* the terminal beside its shell: the shell writes output whenever it runs,
\* the event loop delivers readyRead to readOutput, the user stops the shell
ShellLines ==
    { <<"l","o","a","d"," ","s",".","c","s","v">>,
      <<"h","e","a","d">>,
      <<"c","l","e","a","n">>,
      <<"l","s">>,
      <<"l","o","a","d","e","r">> }

SubmitBesideShell == ExecuteFrom(ShellLines, MaxShellCmds)

\* the number of chunks of shell output in the scrollback
Fetched ==
    LET F[i \in 0..Len(scrollback)] ==
            IF i = 0 THEN 0
            ELSE F[i - 1] + (IF scrollback[i].msg = "stdout" THEN scrollback[i].n ELSE 0)
    IN  F[Len(scrollback)]

\* the shell process writes a chunk to its output channel
ShellWrites ==
    /\ page = "terminal"
    /\ process = Running
    /\ Fetched + Len(pending) < MaxShellOut
    /\ pending' = Append(pending, "chunk")
    /\ term_event' = Handled("write")
    /\ UNCHANGED <<page, panel_vars, sql_vars, term_heap, term_current_df, data_env,
                   term_history, history_index, plot_count, shell_input,
                   scrollback, input, process>>

\* readyReadStandardOutput is delivered
ReadOutput ==
    /\ page = "terminal"
    /\ pending # <<>>
    /\ TermBecomes(readOutput(Terminal), Handled("readyRead"))

\* the user clicks Stop
StopProcess ==
    /\ page = "terminal"
    /\ TermBecomes(stopProcess(Terminal), Handled("stop"))

ShellNext ==
    \/ SubmitBesideShell
    \/ ShellWrites
    \/ ReadOutput
    \/ StopProcess

ShellInit ==
    /\ page = "terminal"
    /\ PanelInit
    /\ SqlInit
    /\ TermFieldsInit
    /\ \E started \in BOOLEAN : process = startShell(started)

ShellSpec == ShellInit /\ [][ShellNext]_vars

\* the SQL panel alone
SqlNext ==
    \/ ExecuteQuery
    \/ LoadHistoryQuery
    \/ DeleteHistoryItem
    \/ ClearHistory
    \/ SqlHistoryPrev
    \/ SqlHistoryNext

SqlPanelInit == page = "sql" /\ PanelInit /\ TermInit /\ SqlInit

SqlSpec == SqlPanelInit /\ [][SqlNext]_vars

(***************************************************************************)
(* Properties of the data-analysis panel.                                  *)
(***************************************************************************)
\* the values of the snapshots of the log, oldest first
HistoryValues == [i \in 1..Len(history) |-> heap[history[i]]]

\* the value of the working dataset
CurrentFrame == heap[current_df]

ErrorTitles == { "Loading Error", "Error", "Filter Error" }

\* C1: the cursor satisfies -1 <= current_step < len(history), and it is -1
\* only while the log is empty
C1_CursorInBounds ==
    /\ -1 <= current_step
    /\ current_step < Len(history)
    /\ (current_step = -1 => history = <<>>)

\* an undo, then a load that failed, with two snapshots in the log
C1_Witness ==
    /\ Len(history) >= 2
    /\ current_step = 0
    /\ last_action = "load_data"
    /\ dialog = "Loading Error"

\* C2: a push at cursor c keeps the entries 0..c, discards the later ones,
\* appends the snapshot and leaves cursor = length-1 = c+1; redo is impossible
\* right after it
C2_PushTruncates ==
    [][saved' =>
        /\ current_step' = current_step + 1
        /\ Len(history') = current_step + 2
        /\ current_step' = Len(history') - 1
        /\ \A i \in 1..(current_step + 1) : heap'[history'[i]] = heap[history[i]]
        /\ heap'[history'[Len(history')]] = heap'[current_df']
        /\ ~(current_step' < Len(history') - 1)
        /\ ~redo_btn']_vars

\* a push that followed undos and discarded what they had made redoable
C2_Witness == saved /\ dropped >= 1 /\ current_step >= 1

\* C3: after the pushes, K undos followed by K redos leave the cursor and the
\* working dataset as they were before the undos
C3_UndoRedoRoundTrip ==
    (undo_run.on /\ undo_run.undos = undo_run.redos) =>
        /\ current_step = undo_run.step
        /\ CurrentFrame = undo_run.value

\* two undos, then two redos
C3_Witness ==
    undo_run.on /\ undo_run.undos = 2 /\ undo_run.redos = 2 /\ alive

\* a call of undo_action or redo_action that its guard refuses
Refused ==
    \/ last_action' = "undo_action" /\ current_step <= 0
    \/ last_action' = "redo_action" /\ current_step >= Len(history) - 1

PanelDataUnchanged ==
    /\ current_step' = current_step
    /\ HistoryValues' = HistoryValues
    /\ CurrentFrame' = CurrentFrame

C5_UndoRedoStep ==
    [][/\ (last_action' = "undo_action" /\ current_step > 0) =>
            /\ current_step' = current_step - 1
            /\ CurrentFrame' = heap[history[current_step]]
            /\ HistoryValues' = HistoryValues
       /\ (last_action' = "redo_action" /\ current_step < Len(history) - 1) =>
            /\ current_step' = current_step + 1
            /\ CurrentFrame' = heap[history[current_step + 2]]
            /\ HistoryValues' = HistoryValues]_vars

\* a redo that followed an undo
C5_Witness ==
    last_action = "redo_action" /\ undo_run.on /\ undo_run.redos >= 1

\* C6: no entry of the log is the object that current_df refers to
C6_SnapshotsIsolated == \A i \in 1..Len(history) : history[i] # current_df

\* after an undo the working dataset equals a snapshot and is another object
C6_Witness ==
    /\ last_action = "undo_action"
    /\ Len(history) >= 2
    /\ current_step >= 0
    /\ CurrentFrame = heap[history[current_step + 1]]

\* C7: load_data, apply_cleaning and apply_filter that end in an error message
\* leave the working dataset, the log and the cursor as they were
C7_FailureChangesNothing ==
    [][(last_action' \in {"load_data", "apply_cleaning", "apply_filter"}
        /\ dialog' \in ErrorTitles) => PanelDataUnchanged]_vars

\* the z-score of row i in column j is defined and |z| >= 3
ZAtLeast3(df, j, i) ==
    LET vs == ColValues(df, j)
    IN  /\ Len(vs) = Len(df.rows)
        /\ QVar(vs).n # 0
        /\ ~ZBelow(df, j, i)

\* the rows of df in which no numeric column has |z| >= 3
WithoutOutliers(df) ==
    SelectRows(df, [i \in 1..Len(df.rows) |->
                        \A j \in 1..Len(df.cols) :
                            df.cols[j].numeric => ~ZAtLeast3(df, j, i)])

\* C9: with 'Z-Score' selected apply_cleaning removes the rows in which a numeric
\* column has |z| >= 3 and keeps the other rows whole; with 'None' the outlier
\* step removes nothing
C9_ZScoreSelected ==
    [][(last_action' = "apply_cleaning" /\ dialog' = "Success") =>
        LET before == CleanDuplicates(CleanMissing(CurrentFrame, operations'),
                                      operations')
        IN  /\ operations'.outlier_method = Lower(TextZScore) =>
                   CurrentFrame' = WithoutOutliers(before)
            /\ operations'.outlier_method = Lower(TextNone) =>
                   CurrentFrame' = before]_vars

(***************************************************************************)
(* Properties of the terminal, and of both panels.                         *)
(***************************************************************************)
\* a step of executeCommand that submitted a command
Submitted == Len(term_history') = Len(term_history) + 1

\* the command the step submitted
SubmittedCommand == term_history'[Len(term_history')]

\* the filter expression is malformed or refers to what is no column
BadFilter(df, expr) == Malformed(expr) \/ UnknownReference(df, expr)

\* C8: a filter whose expression is malformed or names an unknown column is
\* reported as a filter error and changes no dataset: in the panel the working
\* dataset, the log and the cursor stay; in the terminal the bound dataset stays
\* and a line starting with the failure mark is appended
C8_BadFilterRejected ==
    [][/\ (last_action' = "apply_filter" /\ BadFilter(CurrentFrame, filter_expr')) =>
            /\ dialog' = "Filter Error"
            /\ PanelDataUnchanged
       /\ (/\ Submitted
           /\ StartsWith(SubmittedCommand, <<"f","i","l","t","e","r"," ">>)
           /\ term_current_df # None
           /\ BadFilter(term_heap[term_current_df], Drop(SubmittedCommand, 7))) =>
            /\ term_current_df' # None
            /\ term_heap'[term_current_df'] = term_heap[term_current_df]
            /\ data_env' = data_env
            /\ Len(scrollback') = Len(scrollback) + 2
            /\ scrollback'[Len(scrollback')].mark = FailMark
            /\ scrollback'[Len(scrollback')].msg = "Filter error"]_vars

\* the terminal has rejected a filter on a bound dataset
C8_Witness ==
    /\ term_current_df # None
    /\ scrollback # <<>>
    /\ scrollback[Len(scrollback)] = Fail("Filter error")
    /\ StartsWith(term_history[Len(term_history)], <<"f","i","l","t","e","r"," ">>)

\* C10: the dataset that '=' resolves df to is the dataset the other commands
\* work on
C10_SingleDataset ==
    LET resolved == EvalDf(Terminal)
    IN  IF term_current_df = None THEN resolved = None
        ELSE resolved # None /\ term_heap[resolved] = term_heap[term_current_df]

\* the verbs of handleDataCommand whose handlers work on current_df
NeedsDataset(command) ==
    \/ command \in { <<"s","u","m","m","a","r","y">>, <<"h","e","a","d">>, <<"t","a","i","l">>,
                     <<"c","o","l","u","m","n","s">>, <<"d","t","y","p","e","s">>, <<"c","l","e","a","n">>, <<"c","o","r","r">> }
    \/ \E verb \in { <<"p","l","o","t"," ">>, <<"h","i","s","t"," ">>,
                     <<"f","i","l","t","e","r"," ">>, <<"g","r","o","u","p","b","y"," ">> } :
           StartsWith(command, verb)

\* C11: a command that needs a dataset, submitted while none is bound, appends
\* an error line after its echo
C11_ReportsMissingDataset ==
    [][(Submitted /\ NeedsDataset(SubmittedCommand) /\ term_current_df = None) =>
          /\ Len(scrollback') > Len(scrollback) + 1
          /\ scrollback'[Len(scrollback')].mark = FailMark]_vars

\* the operation the command asks for raises in terminal t
OperationRaises(t, command) ==
    \/ StartsWith(command, <<"l","o","a","d"," ">>) /\ ReadCsvRaises(Strip(Drop(command, 5)))
    \/ /\ t.current_df # None
       /\ \/ StartsWith(command, <<"p","l","o","t"," ">>) /\ PlotRaises(Bound(t), Drop(command, 5))
          \/ StartsWith(command, <<"h","i","s","t"," ">>) /\ HistRaises(Bound(t), Drop(command, 5))
          \/ StartsWith(command, <<"f","i","l","t","e","r"," ">>)
                /\ QueryRaises(Bound(t), Drop(command, 7))
          \/ StartsWith(command, <<"g","r","o","u","p","b","y"," ">>)
                /\ GroupByRaises(Bound(t), Drop(command, 8))
          \/ command = <<"c","o","l","u","m","n","s">> /\ showColumns_raises(t)
    \/ StartsWith(command, <<"=">>) /\ EvalRaises(t, Drop(command, 1))

\* the step appended the echo of the command and one line with the failure mark
OneFailureLine ==
    /\ Len(scrollback') = Len(scrollback) + 2
    /\ SubSeq(scrollback', 1, Len(scrollback)) = scrollback
    /\ scrollback'[Len(scrollback) + 1] = Text(">>> ", SubmittedCommand)
    /\ scrollback'[Len(scrollback')].mark = FailMark

\* current_df and data_env['df'] denote what they denoted
BindingUnchanged ==
    /\ term_current_df' = term_current_df
    /\ data_env' = data_env
    /\ term_heap' = term_heap

C13_IndexInBounds ==
    0 <= history_index /\ history_index <= Len(term_history)

\* C14: Return on a line that is not blank appends the stripped line to the
\* history and sets history_index to len(history); Return on a blank line
\* changes neither the history, the index, the scrollback nor the dataset
C14_SubmitAppends ==
    [][term_event'.kind = "return" =>
          LET command == Strip(term_event'.text)
          IN  IF command # <<>>
              THEN /\ term_history' = Append(term_history, command)
                   /\ history_index' = Len(term_history')
                   /\ \A i \in 1..Len(command) : i \in {1, Len(command)} => command[i] # " "
              ELSE /\ term_history' = term_history
                   /\ history_index' = history_index
                   /\ scrollback' = scrollback
                   /\ BindingUnchanged]_vars

\* a line typed with blanks around it was submitted as the third command
C14_Witness ==
    /\ term_event.kind = "return"
    /\ term_event.text = <<" ","c","o","l","u","m","n","s"," ">>
    /\ Len(term_history) = 3
    /\ term_history[3] = <<"c","o","l","u","m","n","s">>
    /\ history_index = 3

\* C15: the k-th Up press after a submission, k <= len(history), shows the
\* k-th newest command
C15_UpRecalls ==
    (term_event.kind = KeyUpCode /\ term_event.ups >= 1) =>
        /\ term_event.ups <= Len(term_history)
        /\ input = term_history[Len(term_history) - term_event.ups + 1]

\* three Up presses after three different commands show the oldest
C15_Witness ==
    /\ term_event.kind = KeyUpCode
    /\ term_event.ups = 3
    /\ Len(term_history) = 3
    /\ Cardinality(Range(term_history)) = 3
    /\ input = term_history[1]

(***************************************************************************)
(* Properties of the terminal's dataset commands.                          *)
(***************************************************************************)
\* the step submitted the verb with an argument; the argument
SubmittedVerb(verb) == Submitted /\ StartsWith(SubmittedCommand, verb)

\* the last line of the scrollback after the step
LastLine == scrollback'[Len(scrollback')]

\* C16: a load of a path that cannot be read appends a line with the failure
\* mark and leaves current_df and data_env['df'] as they were
C16_FailedLoadKeepsBinding ==
    [][(/\ SubmittedVerb(<<"l","o","a","d"," ">>)
        /\ ReadCsvRaises(Strip(Drop(SubmittedCommand, 5)))) =>
          /\ LastLine = Fail("Load error")
          /\ BindingUnchanged]_vars

\* a load has failed while current_df was a filtered frame and data_env['df']
\* the loaded one
C16_Witness ==
    /\ term_current_df # None
    /\ data_env.df # term_current_df
    /\ term_history[Len(term_history)] = <<"l","o","a","d"," ","m",".","c","s","v">>
    /\ scrollback[Len(scrollback)] = Fail("Load error")

\* the step ran a filter that succeeded on a bound dataset
FilterSucceeds ==
    /\ SubmittedVerb(<<"f","i","l","t","e","r"," ">>)
    /\ term_current_df # None
    /\ ~QueryRaises(term_heap[term_current_df], Drop(SubmittedCommand, 7))

MissingRows(df) == Cardinality({ i \in 1..Len(df.rows) : RowHasNaN(df.rows[i]) })

\* C18: clean on n rows of which m hold a missing value reports m removed rows
\* and leaves n - m rows, none with a missing value
C18_CleanRemovesMissing ==
    [][(Submitted /\ SubmittedCommand = <<"c","l","e","a","n">> /\ term_current_df # None) =>
          LET before == term_heap[term_current_df]
              after == term_heap'[term_current_df']
              m == MissingRows(before)
          IN  /\ LastLine = Ok("Data cleaned. Removed rows", m)
              /\ Len(after.rows) = Len(before.rows) - m
              /\ MissingRows(after) = 0]_vars

\* clean has removed a row
C18_Witness ==
    /\ term_current_df # None
    /\ term_history[Len(term_history)] = <<"c","l","e","a","n">>
    /\ scrollback[Len(scrollback)] = Ok("Data cleaned. Removed rows", 1)
    /\ Len(term_heap[term_current_df].rows) = 2

\* the step submitted again the filter that has just succeeded
FilterRepeated ==
    /\ SubmittedVerb(<<"f","i","l","t","e","r"," ">>)
    /\ term_current_df # None
    /\ term_history # <<>>
    /\ term_history[Len(term_history)] = SubmittedCommand
    /\ scrollback[Len(scrollback)].mark = OkMark

\* C19 as stated: the second of two equal filters in a row leaves the rows of
\* the dataset as the first left them
C19_FilterTwiceSame ==
    [][FilterRepeated => term_heap'[term_current_df'] = term_heap[term_current_df]]_vars

\* C19, amended: so it is when the expression compares a column with a constant
C19_ConstantFilterTwiceSame ==
    [][(FilterRepeated /\ IsLiteral(Split(Drop(SubmittedCommand, 7))[3])) =>
          /\ term_heap'[term_current_df'] = term_heap[term_current_df]
          /\ LastLine = Ok("Filter applied. Remaining rows",
                           Len(term_heap[term_current_df].rows))]_vars

\* the same comparison with a constant has been applied twice in a row
C19_Witness ==
    /\ Len(term_history) = 3
    /\ term_history[2] = <<"f","i","l","t","e","r"," ","a"," ",">"," ","2">>
    /\ term_history[3] = term_history[2]
    /\ term_current_df # None
    /\ Len(term_heap[term_current_df].rows) = 1
    /\ scrollback[Len(scrollback)] = Ok("Filter applied. Remaining rows", 1)

(***************************************************************************)
(* Properties of the terminal's dispatch.                                  *)
(***************************************************************************)
\* the verb prefixes of the command language
KnownVerbs ==
    { <<"l","o","a","d">>, <<"s","u","m","m","a","r","y">>, <<"p","l","o","t">>, <<"h","i","s","t">>,
      <<"f","i","l","t","e","r">>, <<"g","r","o","u","p","b","y">>, <<"h","e","a","d">>, <<"t","a","i","l">>,
      <<"c","o","l","u","m","n","s">>, <<"d","t","y","p","e","s">>, <<"c","l","e","a","n">>, <<"c","o","r","r">>,
      <<"=">> }

\* what the handlers make of terminal t on the command, one handler each
HandlerOutcomes(t, command) ==
    { loadData(t, Drop(command, 5)), showSummary(t),
      generatePlot(t, Drop(command, 5)), generateHist(t, Drop(command, 5)),
      filterData(t, Drop(command, 7)), groupBy(t, Drop(command, 8)),
      showHead(t), showTail(t), showColumns(t), showDtypes(t), cleanData(t),
      showCorrelation(t), evalMath(t, Drop(command, 1)) }

\* what handleDataCommand itself appends: nothing, or one line
OwnOutcomes(t, command) ==
    { t, appendOutput(t, Line(FailMark, "Unknown command", 0, command, EmptyFrame)),
      appendOutput(t, Fail("Error processing command")) }

\* the step left the dataset, the plot counter and the scrollback as outcome h
StepYields(h) ==
    LET c == TermCollect(h)
    IN  /\ term_heap' = c.heap
        /\ term_current_df' = c.current_df
        /\ data_env' = c.data_env
        /\ plot_count' = c.plot_count
        /\ scrollback' = c.scrollback

\* C20: the submitted command, the line without the blanks around it, is
\* written with a newline to the shell exactly when it starts with no verb
\* prefix; a command that starts with one is not written to the shell and is
\* worked on by at most one handler
C20_DispatchByPrefix ==
    [][(term_event'.kind = "return" /\ Strip(term_event'.text) # <<>>) =>
          LET command == Strip(term_event'.text)
              verb == \E prefix \in KnownVerbs : StartsWith(command, prefix)
              echoed == appendOutput(Terminal, Text(">>> ", command))
          IN  /\ ~verb => /\ shell_input' = Append(shell_input, command \o <<"\n">>)
                          /\ scrollback' = Append(scrollback, Text("$ ", command))
                          /\ BindingUnchanged
              /\ verb => /\ shell_input' = shell_input
                         /\ \E h \in HandlerOutcomes(echoed, command)
                                        \cup OwnOutcomes(echoed, command) :
                                StepYields(h)]_vars

\* a word that starts like a verb went to the interpreter, a line that holds a
\* verb further on went to the shell
C20_Witness ==
    /\ term_history = << <<"h","e","a","d","l","e","s","s">>, <<"e","c","h","o"," ","h","e","a","d">> >>
    /\ shell_input = << <<"e","c","h","o"," ","h","e","a","d">> \o <<"\n">> >>
    /\ scrollback[2].mark = FailMark
    /\ scrollback[2].msg = "Unknown command"

\* the command grammar: a verb alone, a verb with its argument, an expression
MatchesGrammar(command) ==
    \/ command \in { <<"s","u","m","m","a","r","y">>, <<"h","e","a","d">>, <<"t","a","i","l">>,
                     <<"c","o","l","u","m","n","s">>, <<"d","t","y","p","e","s">>, <<"c","l","e","a","n">>, <<"c","o","r","r">> }
    \/ \E verb \in { <<"l","o","a","d"," ">>, <<"p","l","o","t"," ">>, <<"h","i","s","t"," ">>,
                     <<"f","i","l","t","e","r"," ">>, <<"g","r","o","u","p","b","y"," ">>, <<"=">> } :
           StartsWith(command, verb)

\* C21: a submitted line that does not match the command grammar is written
\* to the shell, also when it begins with the letters of a verb
C21_UnmatchedGoesToShell ==
    [][(/\ term_event'.kind = "return"
        /\ Strip(term_event'.text) # <<>>
        /\ ~MatchesGrammar(Strip(term_event'.text))) =>
          shell_input' = Append(shell_input, Strip(term_event'.text) \o <<"\n">>)]_vars

\* C22: without a running shell a submitted line that has no verb prefix is
\* reported as an unknown command and is not written to the shell
C22_NoShellReportsUnknown ==
    [][(/\ term_event'.kind = "return"
        /\ Strip(term_event'.text) # <<>>
        /\ ~IsDataCommand(Strip(term_event'.text))
        /\ process # Running) =>
          /\ shell_input' = shell_input
          /\ LastLine.mark = FailMark
          /\ LastLine.msg = "Unknown command"]_vars

(***************************************************************************)
(* Properties of the terminal beside its shell.                            *)
(***************************************************************************)
\* the lines the step appended to the scrollback
Appended == SubSeq(scrollback', Len(scrollback) + 1, Len(scrollback'))

\* C24: a command submission fetches no shell output: the echo of a data
\* command and its result lines are appended next to each other with no shell
\* output between or after them; shell output enters the scrollback in steps
\* of readOutput alone, which touch neither history nor dataset; and the
\* dataset changes in steps of command submission alone
C24_ActionsRunToCompletion ==
    [][/\ (term_event'.kind = "return" /\ Strip(term_event'.text) # <<>>) =>
            /\ pending' = pending
            /\ SubSeq(scrollback', 1, Len(scrollback)) = scrollback
            /\ Appended # <<>>
            /\ Appended[1].arg = Strip(term_event'.text)
            /\ \A i \in 1..Len(Appended) : Appended[i].msg # "stdout"
       /\ (\E i \in 1..Len(Appended) : Appended[i].msg = "stdout") =>
            /\ term_event'.kind = "readyRead"
            /\ Appended = <<ShellText(pending)>>
            /\ pending' = <<>>
            /\ term_history' = term_history
            /\ BindingUnchanged
       /\ ~BindingUnchanged => term_event'.kind = "return"]_vars

\* the shell wrote while nothing was read, a data command was then submitted
\* and answered, and the output was fetched after it
C24_Witness ==
    /\ term_event.kind = "readyRead"
    /\ Len(scrollback) = 4
    /\ scrollback[1] = Text(">>> ", <<"l","o","a","d"," ","s",".","c","s","v">>)
    /\ scrollback[2].mark = OkMark
    /\ scrollback[4] = ShellText(<<"chunk", "chunk">>)

(***************************************************************************)
(* The interpreter as a function of dataset and line.                      *)
(***************************************************************************)
\* a terminal that holds the dataset of t and has done nothing else: it has
\* just been constructed, or has just loaded the file the dataset comes from
WithoutPast(t) ==
    [heap |-> IF t.current_df = None THEN <<>> ELSE <<Bound(t)>>,
     current_df |-> IF t.current_df = None THEN None ELSE 1,
     data_env |-> [df |-> IF t.current_df = None THEN None ELSE 1],
     history |-> <<>>, history_index |-> -1, plot_count |-> 0,
     shell_input |-> <<>>, scrollback |-> <<>>, input |-> <<>>,
     process |-> t.process, pending |-> <<>>]

\* the lines the terminal appends on the line, and the dataset it ends with
Answer(t, text) ==
    LET r == executeCommand(t, text)
    IN  [lines |-> SubSeq(r.scrollback, Len(t.scrollback) + 1, Len(r.scrollback)),
         dataset |-> IF r.current_df = None THEN <<>> ELSE <<r.heap[r.current_df]>>]

\* the dataset of the terminal is what a file holds, or nothing is bound
HoldsFile ==
    \/ term_current_df = None
    \/ \E f \in Files : f.fmt = "csv" /\ f.df = term_heap[term_current_df]

\* C23: on every line the terminal answers as a terminal does that holds an
\* equal dataset and has no past: the same lines, an equal dataset
C23_AnswerDependsOnDatasetOnly ==
    HoldsFile =>
        \A text \in DispatchLines :
            Answer(Terminal, text) = Answer(WithoutPast(Terminal), text)

(***************************************************************************)
(* The data panel: buttons and working dataset against the log.            *)
(***************************************************************************)
\* C25: in every state of the panel, the constructed one included, the undo
\* button is enabled exactly when current_step > 0 and the redo button exactly
\* when current_step < len(history) - 1
C25_ButtonsFollowCursor ==
    page = "data" =>
        /\ undo_btn <=> current_step > 0
        /\ redo_btn <=> current_step < Len(history) - 1

\* C26: while the log is not empty the working dataset equals in value the
\* snapshot under the cursor, also after a handler that showed an error
C26_WorkingDatasetIsSnapshot ==
    (page = "data" /\ alive /\ history # <<>>) =>
        heap[current_df] = heap[history[current_step + 1]]

(***************************************************************************)
(* Navigation in the terminal's history.                                   *)
(***************************************************************************)
\* C27: an Up or Down press with a non-empty history leaves history_index in
\* 0..len(history)-1 and shows history[history_index]; Down on or past the
\* newest entry ends on the newest, Up on the oldest stays on the oldest; with
\* an empty history the press changes neither the index nor the input
C27_NavigationClamped ==
    [][term_event'.kind \in {KeyUpCode, KeyDownCode} =>
         /\ term_history' = term_history
         /\ IF term_history = <<>>
            THEN history_index' = history_index /\ input' = input
            ELSE /\ history_index' \in 0..(Len(term_history) - 1)
                 /\ input' = term_history[history_index' + 1]
                 /\ (term_event'.kind = KeyDownCode
                        /\ term_event'.from >= Len(term_history) - 1)
                      => history_index' = Len(term_history) - 1
                 /\ (term_event'.kind = KeyUpCode /\ term_event'.from <= 0)
                      => history_index' = 0]_vars

\* Up was pressed on the oldest of three commands and the oldest is still shown
C27_Witness ==
    /\ term_event.kind = KeyUpCode
    /\ term_event.from = 0
    /\ Len(term_history) = 3
    /\ history_index = 0
    /\ input = term_history[1]
    /\ term_history[1] # term_history[3]

(***************************************************************************)
(* Properties of the SQL panel's query history.                            *)
(***************************************************************************)
\* the texts of the items of the list widget, in order
ItemTexts == [i \in 1..Len(history_list) |-> history_list[i].text]

\* C28: the query history never holds more queries than add_to_history keeps
\* and never the same text twice, and the list widget shows the same texts in
\* the same order; adding a new query to a full history drops the oldest
C28_Stored ==
    /\ Len(query_history) <= MaxStored
    /\ \A i, j \in 1..Len(query_history) :
           query_history[i] = query_history[j] => i = j
    /\ ItemTexts = query_history

C28_AddEvictsOldest ==
    [][(sql_event'.kind = "executeQuery" /\ Len(query_history) = MaxStored
        /\ query_history' # query_history) =>
           query_history' = Append(Tail(query_history), Strip(editor'))]_vars

C28_HistoryBoundedDistinct ==
    []C28_Stored /\ C28_AddEvictsOldest

\* a fourth query was executed: the first one is gone, the fourth is the newest
C28_Witness ==
    /\ sql_event.kind = "executeQuery"
    /\ evicted = 1
    /\ Len(query_history) = MaxStored
    /\ query_history[MaxStored] = Strip(editor)
    /\ ItemTexts = query_history

\* C29: current_history_index is at least -1 and at most len(query_history) - 1,
\* and history_prev and history_next show the query under the index they set
C29_IndexInRange ==
    /\ current_history_index >= -1
    /\ current_history_index <= Len(query_history) - 1
    /\ (sql_event.kind \in {"history_prev", "history_next"} /\ query_history # <<>>) =>
           /\ current_history_index >= 0
           /\ editor = query_history[current_history_index + 1]

\* a query was deleted and the index stands on the one query that is left
C29_Witness ==
    /\ sql_event.kind = "delete_history_item"
    /\ Len(query_history) = 1
    /\ current_history_index = 0
    /\ editor # <<>>
    /\ Strip(editor) # query_history[1]

\* C30: executeQuery adds a query only when it executed; when it reports an
\* SQL error, or the editor holds nothing but blanks, query_history and
\* current_history_index are as before
C30_ErrorAddsNothing ==
    [][sql_event'.kind = "executeQuery" =>
         /\ (query_history' # query_history \/ current_history_index' # current_history_index)
              => /\ ~sqlite_execute(tables, Strip(editor')).error
                 /\ query_history' # <<>>
                 /\ query_history'[Len(query_history')] = Strip(editor')
         /\ (Strip(editor') = <<>> \/ "SQL Error" \in Range(info_bar'))
              => /\ query_history' = query_history
                 /\ current_history_index' = current_history_index
         /\ Strip(editor') = <<>>
              => /\ history_list' = history_list
                 /\ tables' = tables
                 /\ info_bar' = <<>>]_vars

\* a CREATE TABLE that was in the history already failed on its second run
C30_Witness ==
    /\ sql_event.kind = "executeQuery"
    /\ info_bar = <<"SQL Error">>
    /\ editor = CreateT
    /\ CreateT \in Range(query_history)
    /\ current_history_index # Len(query_history) - 1
====
